---- MODULE Spec2Model ----
(***************************************************************************)
(* Pulse digital-logic simulator: the circuit evaluation engine (evaluate), *)
(* the custom-component adapter and the simulation driver's tick.           *)
(*                                                                          *)
(* JavaScript values that may be absent (props.state, a signal-map lookup)  *)
(* are the strings "true", "false" and "undefined"; values the code always  *)
(* coerces with !! are TLA+ booleans.  A signal-map key 'compId:port' is     *)
(* the pair <<compId, port>>.  An optional customDef is a sequence of       *)
(* length 0 or 1.                                                           *)
(***************************************************************************)
EXTENDS Integers, Sequences, FiniteSets, TLC

VARIABLES model, signals, prevSignalsRef, now, lastOp, pc, iter,
          rendered, edits, returned, designData, filename, result

vars == <<model, signals, prevSignalsRef, now, lastOp, pc, iter,
          rendered, edits, returned, designData, filename, result>>

(* edits: the number of editor gestures made so far.                         *)
(* rendered: the model value the Workspace rendered last, which its event   *)
(* handlers close over.  returned: the signal maps evaluate has returned so *)
(* far in the run, by model.  designData, filename, result: the argument    *)
(* and the result of the file functions of utils/json.ts.                   *)
editorVars == <<rendered, edits>>

callVars == <<returned>>

fileVars == <<designData, filename, result>>

-----------------------------------------------------------------------------
(* JavaScript values and truthiness *)

JsValues == {"true", "false", "undefined"}

Truthy(v) == v = "true"

FromBool(b) == IF b THEN "true" ELSE "false"

(* signals[key]: the stored boolean, or undefined for a missing key *)
Get(sig, key) == IF key \in DOMAIN sig THEN FromBool(sig[key]) ELSE "undefined"

(* signals[key] = value *)
Put(sig, key, value) == (key :> value) @@ sig

EmptySignals == [k \in {} |-> FALSE]

-----------------------------------------------------------------------------
(* model.ts: components, wires, circuit models *)

ComponentType == {"AND", "OR", "NOT", "NAND", "NOR", "XOR", "XNOR",
                  "TOGGLE", "CLOCK", "LED", "CUSTOM", "REGISTER"}

Component(id, type, state) ==
  [id |-> id, type |-> type, x |-> 120, y |-> 120,
   props |-> [state |-> state], customDef |-> <<>>]

CustomComponent(id, def) ==
  [id |-> id, type |-> "CUSTOM", x |-> 120, y |-> 120,
   props |-> [state |-> "undefined"], customDef |-> <<def>>]

Wire(id, fromComp, fromPort, toComp, toPort) ==
  [id |-> id, from |-> [compId |-> fromComp, port |-> fromPort],
   to |-> [compId |-> toComp, port |-> toPort]]

CircuitModel(components, wires) == [components |-> components, wires |-> wires]

CustomComponentDefinition(name, inputPins, outputPins, internalModel) ==
  [name |-> name, inputPins |-> inputPins, outputPins |-> outputPins,
   internalModel |-> internalModel]

-----------------------------------------------------------------------------
(* helpers over sequences and sets *)

(* The element of a one-element set.  Only({e(x) : x \in {v}}) is e(v) with  *)
(* v computed once and held as a value, like a const declaration.            *)
Only(S) == CHOOSE x \in S : TRUE

Range(s) == {s[i] : i \in DOMAIN s}

(* Array.prototype.indexOf, 1-based; 0 when absent *)
IndexOf(s, e) ==
  IF \E i \in DOMAIN s : s[i] = e
  THEN CHOOSE i \in DOMAIN s : s[i] = e /\ \A j \in 1..(i - 1) : s[j] # e
  ELSE 0

-----------------------------------------------------------------------------
(* utils/custom-components.ts *)

(* `IN${index}` / `OUT${index}`, index from 0 *)
PortName(prefix, index) == prefix \o ToString(index)

getCustomComponentInputPorts(definition) ==
  [i \in 1..Len(definition.inputPins) |-> PortName("IN", i - 1)]

getCustomComponentOutputPorts(definition) ==
  [i \in 1..Len(definition.outputPins) |-> PortName("OUT", i - 1)]

(* externalInputs[port] || false *)
ExternalInput(externalInputs, port) ==
  port \in DOMAIN externalInputs /\ externalInputs[port]

(* faulty variant: the stored toggle states are kept, the pins are not driven *)
mapInputsToToggles_KeepsStored(definition, externalInputs) ==
  definition.internalModel.components

mapInputsToToggles(definition, externalInputs) ==
  [i \in 1..Len(definition.internalModel.components) |->
     LET comp == definition.internalModel.components[i]
         pinIndex == IndexOf(definition.inputPins, comp.id)
     IN IF comp.type = "TOGGLE" /\ pinIndex # 0
        THEN [comp EXCEPT !.props =
                [@ EXCEPT !.state =
                   FromBool(ExternalInput(externalInputs, PortName("IN", pinIndex - 1)))]]
        ELSE comp]

(* a later pin with the same port name overwrites; names are distinct per index *)
extractOutputsFromLeds(definition, internalSignals) ==
  [p \in {PortName("OUT", i - 1) : i \in 1..Len(definition.outputPins)} |->
     LET index == CHOOSE i \in 1..Len(definition.outputPins) : PortName("OUT", i - 1) = p
     IN Truthy(Get(internalSignals, <<definition.outputPins[index], "OUT">>))]

-----------------------------------------------------------------------------
(* engine.ts: evaluate *)

MAX_ITER == 100

(* wireMap: destination key -> source; a later wire to the same key overwrites *)
wireMap(m) ==
  [k \in {<<m.wires[i].to.compId, m.wires[i].to.port>> : i \in DOMAIN m.wires} |->
     LET last == CHOOSE i \in DOMAIN m.wires :
                   /\ <<m.wires[i].to.compId, m.wires[i].to.port>> = k
                   /\ \A j \in DOMAIN m.wires :
                        <<m.wires[j].to.compId, m.wires[j].to.port>> = k => j <= i
     IN m.wires[last].from]

(* faulty variant: a port without a wire reads as true *)
inputOf_UndrivenTrue(wm, sig, compId, port) ==
  IF <<compId, port>> \notin DOMAIN wm THEN TRUE
  ELSE Truthy(Get(sig, <<wm[<<compId, port>>].compId, wm[<<compId, port>>].port>>))

inputOf(wm, sig, compId, port) ==
  IF <<compId, port>> \notin DOMAIN wm THEN FALSE
  ELSE Truthy(Get(sig, <<wm[<<compId, port>>].compId, wm[<<compId, port>>].port>>))

(* faulty variant: NOR and XNOR lose their negation *)
gateOutput_DroppedNegation(type, a, b) ==
  CASE type = "NOT"  -> ~a
    [] type = "AND"  -> a /\ b
    [] type = "OR"   -> a \/ b
    [] type = "NAND" -> ~(a /\ b)
    [] type = "NOR"  -> a \/ b
    [] type = "XOR"  -> a # b
    [] type = "XNOR" -> a # b

(* the two-input and one-input gate cases of computeOutput *)
gateOutput(type, a, b) ==
  CASE type = "NOT"  -> ~a
    [] type = "AND"  -> a /\ b
    [] type = "OR"   -> a \/ b
    [] type = "NAND" -> ~(a /\ b)
    [] type = "NOR"  -> ~(a \/ b)
    [] type = "XOR"  -> a # b
    [] type = "XNOR" -> a = b

GateTypes == {"NOT", "AND", "OR", "NAND", "NOR", "XOR", "XNOR"}

(* compsById.get(id): a later component with the same id overwrites *)
compsById(m, id) ==
  m.components[CHOOSE i \in DOMAIN m.components :
                 /\ m.components[i].id = id
                 /\ \A j \in DOMAIN m.components : m.components[j].id = id => j <= i]

(* adjacency sets (in insertion order) and indegrees, built wire by wire *)
RECURSIVE buildGraph(_, _, _, _)
buildGraph(ws, i, adj, indegree) ==
  IF i > Len(ws) THEN [adj |-> adj, indegree |-> indegree]
  ELSE LET f == ws[i].from.compId
           t == ws[i].to.compId
       IN IF f \notin DOMAIN adj \/ t \notin DOMAIN adj
          THEN buildGraph(ws, i + 1, adj, indegree)
          ELSE IF t \in Range(adj[f])
               THEN buildGraph(ws, i + 1, adj, indegree)
               ELSE buildGraph(ws, i + 1,
                               [adj EXCEPT ![f] = Append(@, t)],
                               [indegree EXCEPT ![t] = @ + 1])

(* faulty variant: only the wire listed first makes an edge *)
dependencyGraph_FirstWireOnly(m) ==
  LET ids == {m.components[i].id : i \in DOMAIN m.components}
  IN buildGraph(IF m.wires = <<>> THEN <<>> ELSE <<Head(m.wires)>>, 1,
                [id \in ids |-> <<>>], [id \in ids |-> 0])

dependencyGraph(m) ==
  LET ids == {m.components[i].id : i \in DOMAIN m.components}
  IN buildGraph(m.wires, 1, [id \in ids |-> <<>>], [id \in ids |-> 0])

(* ids in Map insertion order: the listing order of first occurrences *)
RECURSIVE idsInOrder(_, _)
idsInOrder(cs, seen) ==
  IF cs = <<>> THEN <<>>
  ELSE IF Head(cs).id \in seen THEN idsInOrder(Tail(cs), seen)
       ELSE <<Head(cs).id>> \o idsInOrder(Tail(cs), seen \cup {Head(cs).id})

(* the inner for-loop of Kahn's algorithm over the neighbours of one node *)
RECURSIVE relaxNeighbours(_, _, _)
relaxNeighbours(nbrs, indegree, queue) ==
  IF nbrs = <<>> THEN [indegree |-> indegree, queue |-> queue]
  ELSE LET nbr == Head(nbrs)
           deg == (IF indegree[nbr] = 0 THEN 1 ELSE indegree[nbr]) - 1
       IN relaxNeighbours(Tail(nbrs), [indegree EXCEPT ![nbr] = deg],
                          IF deg = 0 THEN Append(queue, nbr) ELSE queue)

RECURSIVE kahn(_, _, _, _)
kahn(queue, indegree, adj, topo) ==
  IF queue = <<>> THEN topo
  ELSE LET id == Head(queue)
           r == relaxNeighbours(adj[id], indegree, Tail(queue))
       IN kahn(r.queue, r.indegree, adj, Append(topo, id))

(* faulty variant: the listing order is taken for a topological order *)
topologicalOrder_ListingOrder(m) == idsInOrder(m.components, {})

topologicalOrder(m) ==
  LET g == dependencyGraph(m)
      order == idsInOrder(m.components, {})
  IN kahn(SelectSeq(order, LAMBDA id : g.indegree[id] = 0), g.indegree, g.adj, <<>>)

(* initialize signals for stateful sources first *)
RECURSIVE initSignals(_, _)
initSignals(cs, sig) ==
  IF cs = <<>> THEN sig
  ELSE initSignals(Tail(cs),
         Put(sig, <<Head(cs).id, "OUT">>,
             IF Head(cs).type \in {"TOGGLE", "CLOCK"}
             THEN Truthy(Head(cs).props.state) ELSE FALSE))

RECURSIVE evaluate(_)

(* writes every OUTi of a CUSTOM component into sig and returns OUT0 *)
RECURSIVE storeOutputs(_, _, _, _)
storeOutputs(sig, id, ports, outputs) ==
  IF ports = <<>> THEN sig
  ELSE storeOutputs(Put(sig, <<id, Head(ports)>>, outputs[Head(ports)]),
                    id, Tail(ports), outputs)

computeCustomComponent(wm, sig, c) ==
  IF Len(c.customDef) = 0 THEN [value |-> FALSE, signals |-> sig]
  ELSE LET def == c.customDef[1]
           inputPorts == getCustomComponentInputPorts(def)
           externalInputs == [p \in Range(inputPorts) |-> inputOf(wm, sig, c.id, p)]
           internalModel == CircuitModel(mapInputsToToggles(def, externalInputs),
                                         def.internalModel.wires)
       IN Only({LET outputs == extractOutputsFromLeds(def, internalSignals)
                 IN [value |-> "OUT0" \in DOMAIN outputs /\ outputs["OUT0"],
                     signals |-> storeOutputs(sig, c.id,
                                              getCustomComponentOutputPorts(def), outputs)] :
                   internalSignals \in {evaluate(internalModel)}})

(* faulty variant: a component of no known kind reads as high *)
computeOutput_UnknownHigh(wm, sig, c) ==
  CASE c.type \in {"TOGGLE", "CLOCK"} ->
         [value |-> Truthy(c.props.state), signals |-> sig]
    [] c.type = "LED" ->
         [value |-> inputOf(wm, sig, c.id, "IN"), signals |-> sig]
    [] c.type \in GateTypes ->
         [value |-> gateOutput(c.type, inputOf(wm, sig, c.id, "A"),
                               inputOf(wm, sig, c.id, "B")),
          signals |-> sig]
    [] c.type = "REGISTER" ->
         [value |-> Truthy(c.props.state), signals |-> sig]
    [] c.type = "CUSTOM" -> computeCustomComponent(wm, sig, c)
    [] OTHER -> [value |-> TRUE, signals |-> sig]

(* returns the output value and the signal map after the call's side effects *)
computeOutput(wm, sig, c) ==
  CASE c.type \in {"TOGGLE", "CLOCK"} ->
         [value |-> Truthy(c.props.state), signals |-> sig]
    [] c.type = "LED" ->
         [value |-> inputOf(wm, sig, c.id, "IN"), signals |-> sig]
    [] c.type \in GateTypes ->
         [value |-> gateOutput(c.type, inputOf(wm, sig, c.id, "A"),
                               inputOf(wm, sig, c.id, "B")),
          signals |-> sig]
    [] c.type = "REGISTER" ->
         [value |-> Truthy(c.props.state), signals |-> sig]
    [] c.type = "CUSTOM" -> computeCustomComponent(wm, sig, c)
    [] OTHER -> [value |-> FALSE, signals |-> sig]

(* Evaluate acyclic portion in topological order *)
RECURSIVE topologicalPass(_, _, _, _)
topologicalPass(m, wm, topo, sig) ==
  IF topo = <<>> THEN sig
  ELSE LET c == compsById(m, Head(topo))
       IN Only({topologicalPass(m, wm, Tail(topo), Put(r.signals, <<c.id, "OUT">>, r.value)) :
                  r \in {computeOutput(wm, sig, c)}})

(* faulty variant: the remaining components are visited from the last one *)
remainingComponents_Reversed(m) ==
  LET topoSet == Range(topologicalOrder(m))
      r == SelectSeq(m.components, LAMBDA c : c.id \notin topoSet)
  IN [i \in 1..Len(r) |-> r[Len(r) + 1 - i]]

(* the components the topological sort did not reach, in listing order *)
remainingComponents(m) ==
  LET topoSet == Range(topologicalOrder(m))
  IN SelectSeq(m.components, LAMBDA c : c.id \notin topoSet)

(* one pass of the fixed-point loop over the remaining components *)
RECURSIVE cyclicPass(_, _, _, _)
cyclicPass(wm, remaining, sig, changed) ==
  IF remaining = <<>> THEN [signals |-> sig, changed |-> changed]
  ELSE LET c == Head(remaining)
           keyOut == <<c.id, "OUT">>
       IN Only({IF Truthy(Get(r.signals, keyOut)) # r.value
                THEN cyclicPass(wm, Tail(remaining), Put(r.signals, keyOut, r.value), TRUE)
                ELSE cyclicPass(wm, Tail(remaining), r.signals, changed) :
                  r \in {computeOutput(wm, sig, c)}})

(* faulty variant: the loop condition admits one pass too many *)
loopContinues_OffByOne(it) == it <= MAX_ITER

(* for (let iter = 0; iter < MAX_ITER; iter++) *)
loopContinues(it) == it < MAX_ITER

(* The passes with loop index lo..hi-1, stopping at the first pass that      *)
(* changes nothing or at the first index that fails the loop condition.      *)
(* The range is split in halves so that the evaluation stays shallow.         *)
RECURSIVE iterate(_, _, _, _, _)
iterate(wm, remaining, sig, lo, hi) ==
  IF hi - lo <= 1
  THEN IF loopContinues(lo)
       THEN Only({[signals |-> r.signals, stopped |-> ~r.changed] :
                    r \in {cyclicPass(wm, remaining, sig, FALSE)}})
       ELSE [signals |-> sig, stopped |-> TRUE]
  ELSE LET mid == lo + ((hi - lo) \div 2)
       IN Only({IF first.stopped THEN first
                ELSE iterate(wm, remaining, first.signals, mid, hi) :
                  first \in {iterate(wm, remaining, sig, lo, mid)}})

(* the signal map after initialisation and the topological pass *)
acyclicSignals(m) ==
  topologicalPass(m, wireMap(m), topologicalOrder(m),
                  initSignals(m.components, EmptySignals))

hasCycles(m) == Len(topologicalOrder(m)) < Len(m.components)

evaluate(m) ==
  IF hasCycles(m)
  THEN Only({iterate(wireMap(m), remaining, sig, 0, MAX_ITER + 2).signals :
               remaining \in {remainingComponents(m)}, sig \in {acyclicSignals(m)}})
       \* indices 0 .. MAX_ITER + 1: the loop condition ends the loop inside this range
  ELSE acyclicSignals(m)


(* faulty variant: the input value is written into the definition's own toggle *)
originalToggle_Overwritten(comp, inputValue) ==
  [comp EXCEPT !.props = [@ EXCEPT !.state = FromBool(inputValue)]]

(* mapInputsToToggles returns { ...comp, props: { ...comp.props, state } }, a *)
(* new object: the toggle comp of the definition is left as it was           *)
originalToggle(comp, inputValue) == comp

RECURSIVE argumentAfter(_, _)
(* The objects reachable from the argument m when evaluate(m) returns sig.  *)
(* evaluate assigns to its local signals only; computeCustomComponent hands *)
(* the definition to mapInputsToToggles, whose result shares every object   *)
(* that is no input toggle with the definition, and evaluates that result.  *)
argumentAfter(m, sig) ==
  [m EXCEPT !.components =
     [i \in DOMAIN m.components |->
        LET c == m.components[i]
        IN IF c.type = "CUSTOM" /\ Len(c.customDef) = 1
           THEN LET def == c.customDef[1]
                    externalInputs == [p \in Range(getCustomComponentInputPorts(def)) |->
                                         inputOf(wireMap(m), sig, c.id, p)]
                    internalModel == CircuitModel(mapInputsToToggles(def, externalInputs),
                                                  def.internalModel.wires)
                IN Only({[c EXCEPT !.customDef = <<[def EXCEPT !.internalModel =
                            [@ EXCEPT !.components =
                               [j \in DOMAIN def.internalModel.components |->
                                  LET comp == def.internalModel.components[j]
                                      pinIndex == IndexOf(def.inputPins, comp.id)
                                  IN IF comp.type = "TOGGLE" /\ pinIndex # 0
                                     THEN originalToggle(comp,
                                            ExternalInput(externalInputs,
                                                          PortName("IN", pinIndex - 1)))
                                     ELSE inner.components[j]]]]>>] :
                          inner \in {argumentAfter(internalModel, evaluate(internalModel))}})
           ELSE c]]

-----------------------------------------------------------------------------
(* Bounds of the checked circuit families *)

MaxRing == 4

MaxChain == 2

MaxDepth == 2

-----------------------------------------------------------------------------
(* Circuit families the evaluator is run on, each with its components      *)
(* listed in several orders, since evaluate must not depend on the listing. *)

(* the sequences that list every element of S once *)
RECURSIVE Orderings(_)
Orderings(S) ==
  IF S = {} THEN {<<>>}
  ELSE UNION {{<<x>> \o p : p \in Orderings(S \ {x})} : x \in S}

Perms(n) == Orderings(1..n)

Reorder(s, p) == [i \in 1..Len(s) |-> s[p[i]]]

Reorderings(components, wires) ==
  {CircuitModel(Reorder(components, p), wires) : p \in Perms(Len(components))}

(* TOGGLE t1 -> g.A, TOGGLE t2 -> g.B, g.OUT -> led.IN, for every gate kind *)
GateCircuit(kind, a, b) ==
  [components |-> <<Component("t1", "TOGGLE", FromBool(a)),
                    Component("t2", "TOGGLE", FromBool(b)),
                    Component("g", kind, "undefined"),
                    Component("led", "LED", "undefined")>>,
   wires |-> <<Wire("w1", "t1", "OUT", "g", "A")>>
             \o (IF kind = "NOT" THEN <<>> ELSE <<Wire("w2", "t2", "OUT", "g", "B")>>)
             \o <<Wire("w3", "g", "OUT", "led", "IN")>>]

GateModels ==
  UNION {Reorderings(GateCircuit(kind, a, b).components, GateCircuit(kind, a, b).wires) :
           kind \in GateTypes, a \in BOOLEAN, b \in BOOLEAN}

(* a chain of k gates: t1 drives the first, every gate drives the next one   *)
(* and t2 fans out to input B of all of them; the last gate drives the LED   *)
ChainKinds == {"NAND", "XOR"}

ChainCircuit(k, kinds, a, b) ==
  [components |-> <<Component("t1", "TOGGLE", FromBool(a)),
                    Component("t2", "TOGGLE", FromBool(b))>>
                  \o [i \in 1..k |-> Component(PortName("g", i), kinds[i], "undefined")]
                  \o <<Component("led", "LED", "undefined")>>,
   wires |-> [i \in 1..k |->
                Wire(PortName("a", i),
                     IF i = 1 THEN "t1" ELSE PortName("g", i - 1), "OUT",
                     PortName("g", i), "A")]
             \o [i \in 1..k |-> Wire(PortName("b", i), "t2", "OUT", PortName("g", i), "B")]
             \o <<Wire("wl", PortName("g", k), "OUT", "led", "IN")>>]

(* the listing as written and reversed, each rotated to start at every position *)
Rotations(components, wires) ==
  LET n == Len(components)
      rotate(s, r) == [i \in 1..n |-> s[((i + r - 1) % n) + 1]]
  IN UNION {{CircuitModel(rotate(components, r), wires),
             CircuitModel(rotate([i \in 1..n |-> components[n + 1 - i]], r), wires)} :
              r \in 0..(n - 1)}

ChainModels ==
  UNION {Rotations(ChainCircuit(k, kinds, a, b).components,
                   ChainCircuit(k, kinds, a, b).wires) :
           <<k, kinds, a, b>> \in
             UNION {{<<kk, ks, aa, bb>> : ks \in [1..kk -> ChainKinds],
                                           aa \in BOOLEAN, bb \in BOOLEAN} :
                      kk \in 2..MaxChain}}

(* a feedback ring of k NOT gates: n(i).A is driven by n(i-1).OUT *)
RingCircuit(k) ==
  [components |-> [i \in 1..k |-> Component(PortName("n", i), "NOT", "undefined")],
   wires |-> [i \in 1..k |->
                Wire(PortName("r", i),
                     PortName("n", IF i = 1 THEN k ELSE i - 1), "OUT",
                     PortName("n", i), "A")]]

RingModelsOf(k) == Reorderings(RingCircuit(k).components, RingCircuit(k).wires)

RingModels == UNION {RingModelsOf(k) : k \in 1..MaxRing}

(* a register whose output is read through port Q by one LED and OUT by another *)
RegisterModels ==
  {CircuitModel(<<Component("r", "REGISTER", FromBool(s)),
                  Component("lq", "LED", "undefined"),
                  Component("lo", "LED", "undefined")>>,
                <<Wire("wq", "r", "Q", "lq", "IN"),
                  Wire("wo", "r", "OUT", "lo", "IN")>>) : s \in BOOLEAN}

-----------------------------------------------------------------------------
(* Custom component definitions and the circuits that use them *)

(* two TOGGLEs -> AND -> LED, as createCustomComponentFromDesign imports it *)
AndDefinition(s1, s2) ==
  CustomComponentDefinition("and", <<"i1", "i2">>, <<"il">>,
    CircuitModel(<<Component("i1", "TOGGLE", FromBool(s1)),
                   Component("i2", "TOGGLE", FromBool(s2)),
                   Component("ig", "AND", "undefined"),
                   Component("il", "LED", "undefined")>>,
                 <<Wire("v1", "i1", "OUT", "ig", "A"),
                   Wire("v2", "i2", "OUT", "ig", "B"),
                   Wire("v3", "ig", "OUT", "il", "IN")>>))

(* one input pin, a TOGGLE ik that is no pin and keeps its stored state,   *)
(* and two outputs: OUT0 = IN0 xor ik, OUT1 = ik                            *)
MixedDefinition(s1, sk) ==
  CustomComponentDefinition("mixed", <<"i1">>, <<"il", "il2">>,
    CircuitModel(<<Component("il2", "LED", "undefined"),
                   Component("il", "LED", "undefined"),
                   Component("ig", "XOR", "undefined"),
                   Component("ik", "TOGGLE", FromBool(sk)),
                   Component("i1", "TOGGLE", FromBool(s1))>>,
                 <<Wire("v1", "i1", "OUT", "ig", "A"),
                   Wire("v2", "ik", "OUT", "ig", "B"),
                   Wire("v3", "ig", "OUT", "il", "IN"),
                   Wire("v4", "ik", "OUT", "il2", "IN")>>))

(* no input; the output shows a NOT gate that feeds itself *)
OscillatorDefinition ==
  CustomComponentDefinition("osc", <<>>, <<"il">>,
    CircuitModel(<<Component("in", "NOT", "undefined"),
                   Component("il", "LED", "undefined")>>,
                 <<Wire("v1", "in", "OUT", "in", "A"),
                   Wire("v2", "in", "OUT", "il", "IN")>>))

(* a definition whose internal circuit is one instance of def between one     *)
(* TOGGLE per input and one LED per output                                     *)
WrapDefinition(def) ==
  CustomComponentDefinition("wrap", [i \in 1..Len(def.inputPins) |-> PortName("p", i)],
                            [j \in 1..Len(def.outputPins) |-> PortName("q", j)],
    CircuitModel([j \in 1..Len(def.outputPins) |-> Component(PortName("q", j), "LED", "undefined")]
                 \o <<CustomComponent("ic", def)>>
                 \o [i \in 1..Len(def.inputPins) |-> Component(PortName("p", i), "TOGGLE", "true")],
                 [i \in 1..Len(def.inputPins) |->
                    Wire(PortName("vi", i), PortName("p", i), "OUT", "ic", PortName("IN", i - 1))]
                 \o [j \in 1..Len(def.outputPins) |->
                       Wire(PortName("vo", j), "ic", PortName("OUT", j - 1), PortName("q", j), "IN")]))

RECURSIVE NestDefinition(_, _)
NestDefinition(def, depth) ==
  IF depth <= 1 THEN def ELSE WrapDefinition(NestDefinition(def, depth - 1))

BaseDefinitions ==
  {AndDefinition(s1, s2) : s1 \in BOOLEAN, s2 \in BOOLEAN}
  \cup {MixedDefinition(s1, sk) : s1 \in BOOLEAN, sk \in BOOLEAN}
  \cup {OscillatorDefinition}

Definitions == {NestDefinition(def, depth) : def \in BaseDefinitions, depth \in 1..MaxDepth}

Drives == {"true", "false", "undriven"}

(* a CUSTOM component c of the given definition; input i is driven by TOGGLE *)
(* x(i) or left undriven, output j feeds LED o(j), and a native AND gate g   *)
(* is fed by the same toggles as the first two inputs                        *)
CustomCircuit(def, drives) ==
  LET k == Len(def.inputPins)
      driven == SelectSeq([i \in 1..k |-> i], LAMBDA i : drives[i] # "undriven")
  IN CircuitModel(
       [i \in 1..k |-> Component(PortName("x", i), "TOGGLE",
                                 IF drives[i] = "false" THEN "false" ELSE "true")]
       \o <<CustomComponent("c", def), Component("g", "AND", "undefined")>>
       \o [j \in 1..Len(def.outputPins) |-> Component(PortName("o", j), "LED", "undefined")],
       [n \in 1..Len(driven) |->
          Wire(PortName("wi", driven[n]), PortName("x", driven[n]), "OUT",
               "c", PortName("IN", driven[n] - 1))]
       \o [n \in 1..Len(driven) |->
             Wire(PortName("wg", driven[n]), PortName("x", driven[n]), "OUT",
                  "g", IF driven[n] = 1 THEN "A" ELSE "B")]
       \o [j \in 1..Len(def.outputPins) |->
             Wire(PortName("wo", j), "c", PortName("OUT", j - 1), PortName("o", j), "IN")])

Reverse(s) == [i \in 1..Len(s) |-> s[Len(s) + 1 - i]]

CustomModels ==
  UNION {{CustomCircuit(def, drives),
          CircuitModel(Reverse(CustomCircuit(def, drives).components),
                       CustomCircuit(def, drives).wires)} :
           <<def, drives>> \in
             UNION {{<<d, dr>> : dr \in [1..Len(d.inputPins) -> Drives]} : d \in Definitions}}

(* the internal circuits themselves, evaluated as top-level models *)
InternalModels == {def.internalModel : def \in Definitions}

(* a gate g whose inputs A and B are each driven by a TOGGLE or left without *)
(* a wire, an LED fed by g and an LED with no wire at all                    *)
UndrivenCircuit(kind, driveA, driveB) ==
  CircuitModel(<<Component("lone", "LED", "undefined"),
                 Component("led", "LED", "undefined"),
                 Component("g", kind, "undefined"),
                 Component("u1", "TOGGLE", IF driveA = "false" THEN "false" ELSE "true"),
                 Component("u2", "TOGGLE", IF driveB = "false" THEN "false" ELSE "true")>>,
               (IF driveA = "undriven" THEN <<>> ELSE <<Wire("w1", "u1", "OUT", "g", "A")>>)
               \o (IF driveB = "undriven" THEN <<>> ELSE <<Wire("w2", "u2", "OUT", "g", "B")>>)
               \o <<Wire("w3", "g", "OUT", "led", "IN")>>)

UndrivenModels ==
  {UndrivenCircuit(kind, driveA, driveB) :
     kind \in GateTypes,
     driveA \in Drives,
     driveB \in Drives}

(* two CUSTOM components c1 and c2 of one definition, each with two toggles *)
(* of its own on its inputs and an LED on its output                        *)
SharedCircuit(def, a1, b1, a2, b2) ==
  CircuitModel(<<Component("x1", "TOGGLE", FromBool(a1)), Component("x2", "TOGGLE", FromBool(b1)),
                 Component("x3", "TOGGLE", FromBool(a2)), Component("x4", "TOGGLE", FromBool(b2)),
                 CustomComponent("c1", def), CustomComponent("c2", def),
                 Component("o1", "LED", "undefined"), Component("o2", "LED", "undefined")>>,
               <<Wire("s1", "x1", "OUT", "c1", "IN0"), Wire("s2", "x2", "OUT", "c1", "IN1"),
                 Wire("s3", "x3", "OUT", "c2", "IN0"), Wire("s4", "x4", "OUT", "c2", "IN1"),
                 Wire("s5", "c1", "OUT0", "o1", "IN"), Wire("s6", "c2", "OUT0", "o2", "IN")>>)

SharedModels ==
  {SharedCircuit(NestDefinition(AndDefinition(FALSE, TRUE), depth), a1, b1, a2, b2) :
     depth \in 1..MaxDepth, a1 \in BOOLEAN, b1 \in BOOLEAN, a2 \in BOOLEAN, b2 \in BOOLEAN}

(* a component u of a kind the engine does not know, driven by the toggle  *)
(* x1 and driving input A of the gate g, whose input B the toggle x2 drives *)
UnknownCircuit(kind, a, b) ==
  CircuitModel(<<Component("led", "LED", "undefined"),
                 Component("g", kind, "undefined"),
                 Component("u", "MUX", "true"),
                 Component("x1", "TOGGLE", FromBool(a)),
                 Component("x2", "TOGGLE", FromBool(b))>>,
               <<Wire("w1", "x1", "OUT", "u", "A"),
                 Wire("w2", "u", "OUT", "g", "A"),
                 Wire("w3", "x2", "OUT", "g", "B"),
                 Wire("w4", "g", "OUT", "led", "IN")>>)

(* the unknown component u in a loop with the inverter n *)
UnknownLoop(first) ==
  LET u == Component("u", "MUX", "true")
      n == Component("n", "NOT", "undefined")
      l == Component("led", "LED", "undefined")
  IN CircuitModel(IF first THEN <<u, n, l>> ELSE <<l, n, u>>,
                  <<Wire("w1", "u", "OUT", "n", "A"),
                    Wire("w2", "n", "OUT", "u", "A"),
                    Wire("w3", "u", "OUT", "led", "IN")>>)

UnknownModels ==
  {UnknownCircuit(kind, a, b) : kind \in GateTypes, a \in BOOLEAN, b \in BOOLEAN}
  \cup {UnknownLoop(first) : first \in BOOLEAN}

(* one input pin and two outputs: OUT0 is an undriven LED, OUT1 = not IN0 *)
SplitDefinition ==
  CustomComponentDefinition("split", <<"i1">>, <<"o0", "o1">>,
    CircuitModel(<<Component("i1", "TOGGLE", "false"),
                   Component("in", "NOT", "undefined"),
                   Component("o0", "LED", "undefined"),
                   Component("o1", "LED", "undefined")>>,
                 <<Wire("v1", "i1", "OUT", "in", "A"),
                   Wire("v2", "in", "OUT", "o1", "IN")>>))

(* three split components in a ring through their second outputs *)
SplitRing ==
  CircuitModel(<<CustomComponent("s1", SplitDefinition),
                 CustomComponent("s2", SplitDefinition),
                 CustomComponent("s3", SplitDefinition)>>,
               <<Wire("w1", "s1", "OUT1", "s2", "IN0"),
                 Wire("w2", "s2", "OUT1", "s3", "IN0"),
                 Wire("w3", "s3", "OUT1", "s1", "IN0")>>)

(* two inverters n1, n2 in a ring, a split component s1 behind n1 and a  *)
(* split component s2 behind the second output of s1, listed first       *)
SplitBehindRing ==
  CircuitModel(<<CustomComponent("s2", SplitDefinition),
                 CustomComponent("s1", SplitDefinition),
                 Component("n1", "NOT", "undefined"),
                 Component("n2", "NOT", "undefined")>>,
               <<Wire("w1", "n1", "OUT", "n2", "A"),
                 Wire("w2", "n2", "OUT", "n1", "A"),
                 Wire("w3", "n1", "OUT", "s1", "IN0"),
                 Wire("w4", "s1", "OUT1", "s2", "IN0")>>)

SplitModels == {SplitRing, SplitBehindRing}

(* a gate g whose output is wired to its own input A, and an LED behind it *)
SelfLoopCircuit(kind) ==
  CircuitModel(<<Component("g", kind, "undefined"), Component("led", "LED", "undefined")>>,
               <<Wire("w1", "g", "OUT", "g", "A"),
                 Wire("w2", "g", "OUT", "led", "IN")>>)

SelfLoopModels == {SelfLoopCircuit(kind) : kind \in {"NOT", "AND", "NOR"}}

(* a ring of k NOT gates and an LED on the output of its j-th gate, listed *)
(* before or after the ring                                                *)
LitRing(k, j, first) ==
  LET l == <<Component("led", "LED", "undefined")>>
      ring == RingCircuit(k)
  IN CircuitModel(IF first THEN l \o ring.components ELSE ring.components \o l,
                  ring.wires \o <<Wire("wl", PortName("n", j), "OUT", "led", "IN")>>)

(* the ring of split components and an LED on the second output of s1 *)
LitSplitRing(first) ==
  LET l == <<Component("led", "LED", "undefined")>>
  IN CircuitModel(IF first THEN l \o SplitRing.components ELSE SplitRing.components \o l,
                  SplitRing.wires \o <<Wire("wl", "s1", "OUT1", "led", "IN")>>)

LitModels ==
  UNION {{LitRing(k, j, first) : j \in 1..k, first \in BOOLEAN} : k \in 1..MaxRing}
  \cup {LitSplitRing(first) : first \in BOOLEAN}

(* a toggle behind two inverters and an LED *)
BufferCircuit(a) ==
  CircuitModel(<<Component("x", "TOGGLE", FromBool(a)), Component("a", "NOT", "undefined"),
                 Component("b", "NOT", "undefined"), Component("led", "LED", "undefined")>>,
               <<Wire("w1", "x", "OUT", "a", "A"), Wire("w2", "a", "OUT", "b", "A"),
                 Wire("w3", "b", "OUT", "led", "IN")>>)

(* two toggles into an AND wrapper, an inverter behind it and an LED *)
WrappedCircuit ==
  CircuitModel(<<Component("x1", "TOGGLE", "true"), Component("x2", "TOGGLE", "false"),
                 CustomComponent("c", AndDefinition(FALSE, FALSE)),
                 Component("v", "NOT", "undefined"), Component("led", "LED", "undefined")>>,
               <<Wire("w1", "x1", "OUT", "c", "IN0"), Wire("w2", "x2", "OUT", "c", "IN1"),
                 Wire("w3", "c", "OUT0", "v", "A"), Wire("w4", "v", "OUT", "led", "IN")>>)

RelistBases == {BufferCircuit(a) : a \in BOOLEAN} \cup {WrappedCircuit}

(* every listing of the components and of the wires of the base circuits *)
RelistedModels ==
  UNION {{CircuitModel(Reorder(b.components, p), Reorder(b.wires, q)) :
            p \in Perms(Len(b.components)), q \in Perms(Len(b.wires))} : b \in RelistBases}

EvalModels ==
  GateModels \cup ChainModels \cup RingModels \cup RegisterModels
  \cup CustomModels \cup InternalModels \cup UndrivenModels \cup SharedModels
  \cup UnknownModels \cup SplitModels \cup SelfLoopModels \cup LitModels
  \cup RelistedModels

-----------------------------------------------------------------------------
(* One call of evaluate, pass by pass *)

(* no call of evaluate has returned yet *)
NoCalls == [m \in {} |-> EmptySignals]

(* no file function is in use *)
NoFile == designData = "none" /\ filename = <<>> /\ result = "none"

InitEval ==
  /\ model \in EvalModels
  /\ signals = EmptySignals
  /\ prevSignalsRef = EmptySignals
  /\ now = 0
  /\ lastOp = "init"
  /\ pc = "ready"
  /\ iter = 0
  /\ rendered = model
  /\ edits = 0
  /\ returned = NoCalls
  /\ NoFile

(* graph construction, Kahn's algorithm, initialisation, topological pass *)
EvalAcyclic ==
  /\ pc = "ready"
  /\ signals' = acyclicSignals(model)
  /\ model' = argumentAfter(model, signals')
  /\ pc' = IF hasCycles(model) THEN "iterating" ELSE "done"
  /\ UNCHANGED <<prevSignalsRef, now, lastOp, iter>>
  /\ UNCHANGED <<editorVars, callVars, fileVars>>

(* one pass over the remaining components; leaves the loop when nothing changed *)
EvalPass ==
  /\ pc = "iterating"
  /\ loopContinues(iter)
  /\ LET r == cyclicPass(wireMap(model), remainingComponents(model), signals, FALSE)
     IN /\ signals' = r.signals
        /\ pc' = IF r.changed THEN "iterating" ELSE "done"
        /\ iter' = IF r.changed THEN iter + 1 ELSE iter
  /\ model' = argumentAfter(model, signals')
  /\ UNCHANGED <<prevSignalsRef, now, lastOp>>
  /\ UNCHANGED <<editorVars, callVars, fileVars>>

(* the loop condition fails: the values of the last pass are returned *)
EvalCeiling ==
  /\ pc = "iterating"
  /\ ~loopContinues(iter)
  /\ pc' = "done"
  /\ UNCHANGED <<model, signals, prevSignalsRef, now, lastOp, iter>>
  /\ UNCHANGED <<editorVars, callVars, fileVars>>

NextEval == EvalAcyclic \/ EvalPass \/ EvalCeiling

SpecEval == InitEval /\ [][NextEval]_vars

(* evaluate is a synchronous call: once entered it runs to completion.  This *)
(* is weak fairness of NextEval, with ENABLED <<NextEval>>_vars written as   *)
(* the state predicate it is equal to, pc # "done".                          *)
FairSpecEval == SpecEval /\ ([]<>(pc = "done") \/ []<><<NextEval>>_vars)

-----------------------------------------------------------------------------
(* App.tsx: the simulation driver and the editor *)

(* the clock's period in ms *)
period == 500

halfPeriod == period \div 2

(* instants at which Date.now() is sampled *)
Times == {249, 250, 500}

shouldBeHigh(t) == (t % period) < halfPeriod

(* faulty variant: a clock changes level at every tick *)
clockUpdatedModel_CountsTicks(m, t) ==
  [m EXCEPT !.components =
     [i \in DOMAIN m.components |->
        LET c == m.components[i]
        IN IF c.type = "CLOCK"
           THEN [c EXCEPT !.props = [@ EXCEPT !.state = FromBool(~Truthy(c.props.state))]]
           ELSE c]]

(* First, update clocks based on time *)
clockUpdatedModel(m, t) ==
  [m EXCEPT !.components =
     [i \in DOMAIN m.components |->
        LET c == m.components[i]
        IN IF c.type = "CLOCK" /\ Truthy(c.props.state) # shouldBeHigh(t)
           THEN [c EXCEPT !.props = [@ EXCEPT !.state = FromBool(shouldBeHigh(t))]]
           ELSE c]]

previousSignals(m) == evaluate(m)

currentSignals(m, t) == evaluate(clockUpdatedModel(m, t))

(* wires.find(w => w.to.compId === id && w.to.port === port): the first such wire *)
findWire(m, id, port) ==
  LET hits == {i \in DOMAIN m.wires :
                 m.wires[i].to.compId = id /\ m.wires[i].to.port = port}
  IN IF hits = {} THEN <<>>
     ELSE <<m.wires[CHOOSE i \in hits : \A j \in hits : i <= j]>>

(* wire ? sig[wire.from.compId + ':' + wire.from.port] : dflt *)
wireSignal(m, sig, id, port, dflt) ==
  LET w == findWire(m, id, port)
  IN IF Len(w) = 0 THEN dflt
     ELSE Get(sig, <<w[1].from.compId, w[1].from.port>>)

(* faulty variant: the enable input is not consulted *)
captures_IgnoresEnable(clk, prevClk, en) == Truthy(clk) /\ ~Truthy(prevClk)

(* faulty variant: level-triggered, the previous clock level is not consulted *)
captures_LevelTriggered(clk, prevClk, en) == Truthy(clk) /\ Truthy(en)

(* if (clk && !prevClk && en) *)
captures(clk, prevClk, en) == Truthy(clk) /\ ~Truthy(prevClk) /\ Truthy(en)

(* faulty variant: the registers are updated one after the other, each from *)
(* the signals of the model as the registers before it have left it         *)
RECURSIVE registersInTurn(_, _, _)
registersInTurn(cm, prev, i) ==
  IF i > Len(cm.components) THEN cm
  ELSE LET c == cm.components[i]
           cur == evaluate(cm)
           clk == wireSignal(cm, cur, c.id, "CLK", "false")
           prevClk == wireSignal(cm, prev, c.id, "CLK", "false")
           en == wireSignal(cm, cur, c.id, "EN", "true")
           d == wireSignal(cm, cur, c.id, "D", "false")
       IN registersInTurn(
            IF c.type = "REGISTER" /\ captures(clk, prevClk, en)
            THEN [cm EXCEPT !.components[i].props.state = d]
            ELSE cm,
            prev, i + 1)

finalModel_OneByOne(m, t) == registersInTurn(clockUpdatedModel(m, t), previousSignals(m), 1)

(* Update registers based on signal transitions *)
finalModel(m, t) ==
  LET cm == clockUpdatedModel(m, t)
      cur == currentSignals(m, t)
      prev == previousSignals(m)
  IN [cm EXCEPT !.components =
        [i \in DOMAIN cm.components |->
           LET c == cm.components[i]
               clk == wireSignal(cm, cur, c.id, "CLK", "false")
               prevClk == wireSignal(cm, prev, c.id, "CLK", "false")
               en == wireSignal(cm, cur, c.id, "EN", "true")
               d == wireSignal(cm, cur, c.id, "D", "false")
           IN IF c.type = "REGISTER" /\ captures(clk, prevClk, en)
              THEN [c EXCEPT !.props = [@ EXCEPT !.state = d]]
              ELSE c]]

(* faulty variant: the signals computed before the register update are published *)
finalSignals_Stale(m, t) == currentSignals(m, t)

(* Re-evaluate signals with final model (to show register Q outputs) *)
finalSignals(m, t) == evaluate(finalModel(m, t))

(* designs as loaded from a file; toggles, clocks and registers start low *)
RegisterBench ==
  CircuitModel(<<Component("k", "CLOCK", "false"), Component("d", "TOGGLE", "false"),
                 Component("e", "TOGGLE", "false"), Component("r", "REGISTER", "false"),
                 Component("l", "LED", "undefined")>>,
               <<Wire("w1", "k", "OUT", "r", "CLK"), Wire("w2", "d", "OUT", "r", "D"),
                 Wire("w3", "e", "OUT", "r", "EN"), Wire("w4", "r", "OUT", "l", "IN")>>)

ToggleClocked ==
  CircuitModel(<<Component("c", "TOGGLE", "false"), Component("d", "TOGGLE", "false"),
                 Component("r", "REGISTER", "false"), Component("l", "LED", "undefined")>>,
               <<Wire("w1", "c", "OUT", "r", "CLK"), Wire("w2", "d", "OUT", "r", "D"),
                 Wire("w3", "r", "OUT", "l", "IN")>>)

GateClocked ==
  CircuitModel(<<Component("k", "CLOCK", "false"), Component("t", "TOGGLE", "false"),
                 Component("g", "XOR", "undefined"), Component("d", "TOGGLE", "false"),
                 Component("r", "REGISTER", "false")>>,
               <<Wire("w1", "k", "OUT", "g", "A"), Wire("w2", "t", "OUT", "g", "B"),
                 Wire("w3", "g", "OUT", "r", "CLK"), Wire("w4", "d", "OUT", "r", "D")>>)

RegisterClocked ==
  CircuitModel(<<Component("k", "CLOCK", "false"), Component("d", "TOGGLE", "false"),
                 Component("r1", "REGISTER", "false"), Component("r2", "REGISTER", "false")>>,
               <<Wire("w1", "k", "OUT", "r1", "CLK"), Wire("w2", "d", "OUT", "r1", "D"),
                 Wire("w3", "r1", "OUT", "r2", "CLK"), Wire("w4", "d", "OUT", "r2", "D")>>)

ShiftChain ==
  CircuitModel(<<Component("k", "CLOCK", "false"), Component("d", "TOGGLE", "false"),
                 Component("r1", "REGISTER", "false"), Component("r2", "REGISTER", "false")>>,
               <<Wire("w1", "k", "OUT", "r1", "CLK"), Wire("w2", "k", "OUT", "r2", "CLK"),
                 Wire("w3", "d", "OUT", "r1", "D"), Wire("w4", "r1", "OUT", "r2", "D")>>)

(* the shift chain listed from its last stage to its clock *)
ShiftChainReversed == CircuitModel(Reverse(ShiftChain.components), Reverse(ShiftChain.wires))

(* three registers on the clock k, listed with the middle stage first *)
ShiftThree ==
  CircuitModel(<<Component("r2", "REGISTER", "false"), Component("k", "CLOCK", "false"),
                 Component("r1", "REGISTER", "true"), Component("r3", "REGISTER", "false"),
                 Component("d", "TOGGLE", "false")>>,
               <<Wire("w1", "k", "OUT", "r1", "CLK"), Wire("w2", "k", "OUT", "r2", "CLK"),
                 Wire("w3", "k", "OUT", "r3", "CLK"), Wire("w4", "d", "OUT", "r1", "D"),
                 Wire("w5", "r1", "OUT", "r2", "D"), Wire("w6", "r2", "OUT", "r3", "D")>>)

Feedback ==
  CircuitModel(<<Component("l", "LED", "undefined"), Component("n", "NOT", "undefined"),
                 Component("r", "REGISTER", "false"), Component("k", "CLOCK", "false")>>,
               <<Wire("w1", "k", "OUT", "r", "CLK"), Wire("w2", "r", "OUT", "n", "A"),
                 Wire("w3", "n", "OUT", "r", "D"), Wire("w4", "r", "OUT", "l", "IN")>>)

(* a register that holds 1 and has only its CLK input wired *)
ClockOnly ==
  CircuitModel(<<Component("k", "CLOCK", "false"), Component("r", "REGISTER", "true")>>,
               <<Wire("w1", "k", "OUT", "r", "CLK")>>)

EmptyModel == CircuitModel(<<>>, <<>>)

Designs == {EmptyModel, RegisterBench, ToggleClocked, GateClocked, RegisterClocked,
            ShiftChain, ShiftChainReversed, ShiftThree, Feedback, ClockOnly}

Init ==
  /\ model \in Designs
  /\ signals = EmptySignals
  /\ prevSignalsRef = EmptySignals
  /\ now = 0
  /\ lastOp = "init"
  /\ pc = "idle"
  /\ iter = 0
  /\ rendered = model
  /\ edits = 0
  /\ returned = NoCalls
  /\ NoFile

(* one firing of the 60 ms interval: setModel(currentModel => ...).  In   *)
(* Spec every update is rendered before the next event is handled.       *)
Tick ==
  \E t \in Times :
    /\ model' = finalModel(model, t)
    /\ signals' = finalSignals(model, t)
    /\ prevSignalsRef' = currentSignals(model, t)
    /\ now' = t
    /\ lastOp' = "tick"
    /\ rendered' = model'
    /\ UNCHANGED <<edits, pc, iter, callVars, fileVars>>

(* the Flip button of a TOGGLE: onUpdate({ props: { ...props, state: !state } }) *)
FlipToggle ==
  \E i \in DOMAIN model.components :
    /\ model.components[i].type = "TOGGLE"
    /\ model' = [model EXCEPT !.components =
                   [j \in DOMAIN model.components |->
                      IF model.components[j].id = model.components[i].id
                      THEN [model.components[j] EXCEPT !.props =
                              [@ EXCEPT !.state =
                                 FromBool(~Truthy(model.components[i].props.state))]]
                      ELSE model.components[j]]]
    /\ lastOp' = "flip"
    /\ rendered' = model'
    /\ UNCHANGED <<edits, signals, prevSignalsRef, now, pc, iter, callVars, fileVars>>

Next == Tick \/ FlipToggle

Spec == Init /\ [][Next]_vars

-----------------------------------------------------------------------------
(* A run of several calls of evaluate, one after the other *)

(* an LED whose IN wire comes from n1, a component that is not in the model *)
OrphanLed ==
  CircuitModel(<<Component("led", "LED", "undefined")>>,
               <<Wire("w1", "n1", "OUT", "led", "IN")>>)

CallModels ==
  {CircuitModel(RingCircuit(k).components, RingCircuit(k).wires) : k \in 1..3}
  \cup {GateCircuit("AND", TRUE, TRUE), GateCircuit("XOR", TRUE, FALSE), OrphanLed}

(* faulty variant: the map of the previous call is reused *)
freshSignals_CarriedOver(previous) == previous

(* const signals: SignalMap = {} *)
freshSignals(previous) == EmptySignals

(* the signal map after initialisation and the topological pass, written into sig *)
acyclicSignalsInto(m, sig) ==
  topologicalPass(m, wireMap(m), topologicalOrder(m), initSignals(m.components, sig))

InitCalls ==
  /\ model = EmptyModel
  /\ signals = EmptySignals
  /\ prevSignalsRef = EmptySignals
  /\ now = 0
  /\ lastOp = "init"
  /\ pc = "idle"
  /\ iter = 0
  /\ rendered = model
  /\ edits = 0
  /\ returned = NoCalls
  /\ NoFile

(* evaluate(m) is entered: its locals are created *)
CallEnter ==
  /\ pc = "idle"
  /\ \E m \in CallModels : model' = m
  /\ signals' = freshSignals(signals)
  /\ iter' = 0
  /\ pc' = "entered"
  /\ lastOp' = "enter"
  /\ UNCHANGED <<prevSignalsRef, now, editorVars, callVars, fileVars>>

(* graph construction, Kahn's algorithm, initialisation, topological pass *)
CallAcyclic ==
  /\ pc = "entered"
  /\ signals' = acyclicSignalsInto(model, signals)
  /\ pc' = IF hasCycles(model) THEN "iterating" ELSE "done"
  /\ UNCHANGED <<model, prevSignalsRef, now, lastOp, iter>>
  /\ UNCHANGED <<editorVars, callVars, fileVars>>

(* return signals: the caller has the map *)
CallReturn ==
  /\ pc = "done"
  /\ returned' = (model :> signals) @@ returned
  /\ pc' = "idle"
  /\ lastOp' = "return"
  /\ UNCHANGED <<model, signals, prevSignalsRef, now, iter, editorVars, fileVars>>

NextCalls == CallEnter \/ CallAcyclic \/ EvalPass \/ EvalCeiling \/ CallReturn

SpecCalls == InitCalls /\ [][NextCalls]_vars

-----------------------------------------------------------------------------
(* The editor: Palette, Workspace and GateView handlers next to the tick *)

MaxComps == 3
MaxWires == 2
MaxEdits == 4
rectWidth == 800
rectHeight == 600

(* the Palette buttons pressed here (Palette.tsx line 32 lists ten types) *)
PaletteItems == {"TOGGLE", "AND"}

(* Date.now() at the ticks of an editing session: clock high, clock low *)
EditorTimes == {249, 250}

(* mouse drags (dx, dy) of a component *)
Drags == {<<600, 0>>}

(* a design as loaded from a file: a register clocked by k with data from d *)
LoadedRegister ==
  CircuitModel(<<Component("k", "CLOCK", "false"), Component("d", "TOGGLE", "true"),
                 Component("r", "REGISTER", "false")>>,
               <<Wire("w1", "k", "OUT", "r", "CLK"), Wire("w2", "d", "OUT", "r", "D")>>)

(* a design as loaded from a file: an inverter fed by d, and a spare toggle s *)
LoadedInverter ==
  CircuitModel(<<Component("d", "TOGGLE", "true"), Component("s", "TOGGLE", "false"),
                 Component("n", "NOT", "undefined")>>,
               <<Wire("w1", "d", "OUT", "n", "A")>>)

(* a design as loaded from a file: a register that holds 1, clocked by k and *)
(* enabled by the toggle e, with nothing on its D input                     *)
LoadedEnabled ==
  CircuitModel(<<Component("k", "CLOCK", "false"), Component("e", "TOGGLE", "true"),
                 Component("r", "REGISTER", "true")>>,
               <<Wire("w1", "k", "OUT", "r", "CLK"), Wire("w2", "e", "OUT", "r", "EN")>>)

EditorDesigns == {EmptyModel, LoadedRegister, LoadedInverter, LoadedEnabled}

Min(a, b) == IF a < b THEN a ELSE b

Max(a, b) == IF a > b THEN a ELSE b

(* the ports GateView draws on the left edge of a component *)
inputPortsOf(c) ==
  IF c.type = "CUSTOM" /\ Len(c.customDef) = 1
  THEN Range(getCustomComponentInputPorts(c.customDef[1]))
  ELSE IF c.type = "LED" THEN {"IN"}
  ELSE IF c.type \in {"TOGGLE", "CLOCK"} THEN {}
  ELSE IF c.type = "NOT" THEN {"A"}
  ELSE {"A", "B"}

(* the ports GateView draws on the right edge of a component *)
outputPortsOf(c) ==
  IF c.type = "CUSTOM" /\ Len(c.customDef) = 1
  THEN Range(getCustomComponentOutputPorts(c.customDef[1]))
  ELSE IF c.type = "LED" THEN {}
  ELSE {"OUT"}

(* 'c' + Math.random()...: an id that no component and no wire of m uses *)
freshId(prefix, used) ==
  PortName(prefix, CHOOSE n \in 1..(Cardinality(used) + 1) :
                     /\ PortName(prefix, n) \notin used
                     /\ \A k \in 1..(n - 1) : PortName(prefix, k) \in used)

usedIds(m) ==
  {m.components[i].id : i \in DOMAIN m.components}
  \cup {m.wires[i].from.compId : i \in DOMAIN m.wires}
  \cup {m.wires[i].to.compId : i \in DOMAIN m.wires}
  \cup {m.wires[i].id : i \in DOMAIN m.wires}

(* onAdd: props.state = false for TOGGLE, CLOCK and REGISTER, x = y = 120 *)
newComponent(id, type) ==
  Component(id, type, IF type \in {"TOGGLE", "CLOCK", "REGISTER"} THEN "false" ELSE "undefined")

(* onAdd: setModel((m) => ({ ...m, components: [...m.components, comp] })) *)
onAdd(m, type) ==
  [m EXCEPT !.components = Append(@, newComponent(freshId("c", usedIds(m)), type))]

(* avoid duplicates: a wire with the same from and the same to *)
exists(m, fromId, fromPort, toId, toPort) ==
  \E i \in DOMAIN m.wires :
    /\ m.wires[i].from.compId = fromId
    /\ m.wires[i].from.port = fromPort
    /\ m.wires[i].to.compId = toId
    /\ m.wires[i].to.port = toPort

(* endConnection: setModel({ ...model, wires: [...model.wires, w] }) *)
endConnection(m, fromId, fromPort, toId, toPort) ==
  [m EXCEPT !.wires =
     Append(@, Wire(freshId("w", usedIds(m)), fromId, fromPort, toId, toPort))]

(* deleteWire: setModel({ ...model, wires: model.wires.filter(w => w.id !== wireId) }) *)
deleteWire(m, wireId) ==
  [m EXCEPT !.wires = SelectSeq(@, LAMBDA w : w.id # wireId)]

(* onDelete: the component is filtered out, its wires stay *)
onDelete(m, id) ==
  [m EXCEPT !.components = SelectSeq(@, LAMBDA cc : cc.id # id)]

(* onUpdate(patch) with the Flip button's patch                       *)
(* { props: { ...comp.props, state: !comp.props.state } }               *)
onUpdate(m, comp) ==
  [m EXCEPT !.components =
     [j \in DOMAIN m.components |->
        IF m.components[j].id = comp.id
        THEN [m.components[j] EXCEPT !.props =
                [comp.props EXCEPT !.state = FromBool(~Truthy(comp.props.state))]]
        ELSE m.components[j]]]

(* onMove: clamp while moving inside container *)
onMove(m, c, dx, dy) ==
  [m EXCEPT !.components =
     [j \in DOMAIN m.components |->
        IF m.components[j].id = c.id
        THEN [m.components[j] EXCEPT !.x = Max(0, Min(c.x + dx, rectWidth - 80)),
                                     !.y = Max(0, Min(c.y + dy, rectHeight - 48))]
        ELSE m.components[j]]]

(* the Workspace effect that runs after a render: keep components within bounds *)
keepWithinBounds(m) ==
  [m EXCEPT !.components =
     [j \in DOMAIN m.components |->
        [m.components[j] EXCEPT !.x = Max(0, Min(@, rectWidth - 80)),
                                !.y = Max(0, Min(@, rectHeight - 48))]]]

InitEditor ==
  /\ model \in EditorDesigns
  /\ signals = EmptySignals
  /\ prevSignalsRef = EmptySignals
  /\ now = 0
  /\ lastOp = "init"
  /\ pc = "idle"
  /\ iter = 0
  /\ rendered = model
  /\ edits = 0
  /\ returned = NoCalls
  /\ NoFile

(* an editor gesture: the number of gestures of a session is capped *)
editorFrame ==
  /\ edits < MaxEdits
  /\ edits' = edits + 1
  /\ UNCHANGED <<signals, prevSignalsRef, now, pc, iter, callVars, fileVars>>

(* In SpecEditor React renders every update, and runs the Workspace effect, *)
(* before the next event is handled.                                       *)
AddComponent ==
  \E type \in PaletteItems :
    /\ Len(model.components) < MaxComps
    /\ model' = keepWithinBounds(onAdd(model, type))
    /\ rendered' = model'
    /\ lastOp' = "add"
    /\ editorFrame

(* startConnection on an output port, then endConnection on an input port *)
Connect ==
  \E i \in DOMAIN rendered.components, j \in DOMAIN rendered.components :
    \E fromPort \in outputPortsOf(rendered.components[i]),
       toPort \in inputPortsOf(rendered.components[j]) :
      /\ Len(rendered.wires) < MaxWires
      /\ ~exists(rendered, rendered.components[i].id, fromPort,
                 rendered.components[j].id, toPort)
      /\ model' = keepWithinBounds(endConnection(rendered, rendered.components[i].id, fromPort,
                                                 rendered.components[j].id, toPort))
      /\ rendered' = model'
      /\ lastOp' = "connect"
      /\ editorFrame

DeleteWire ==
  \E i \in DOMAIN rendered.wires :
    /\ model' = keepWithinBounds(deleteWire(rendered, rendered.wires[i].id))
    /\ rendered' = model'
    /\ lastOp' = "deleteWire"
    /\ editorFrame

DeleteComponent ==
  \E i \in DOMAIN rendered.components :
    /\ model' = keepWithinBounds(onDelete(rendered, rendered.components[i].id))
    /\ rendered' = model'
    /\ lastOp' = "delete"
    /\ editorFrame

Flip ==
  \E i \in DOMAIN rendered.components :
    /\ rendered.components[i].type = "TOGGLE"
    /\ model' = keepWithinBounds(onUpdate(rendered, rendered.components[i]))
    /\ rendered' = model'
    /\ lastOp' = "flip"
    /\ editorFrame

Move ==
  \E i \in DOMAIN rendered.components, drag \in Drags :
    /\ model' = keepWithinBounds(onMove(rendered, rendered.components[i], drag[1], drag[2]))
    /\ model' # model
    /\ rendered' = model'
    /\ lastOp' = "move"
    /\ editorFrame

EditorTick ==
  \E t \in EditorTimes :
    /\ model' = keepWithinBounds(finalModel(model, t))
    /\ signals' = finalSignals(model, t)
    /\ prevSignalsRef' = currentSignals(model, t)
    /\ now' = t
    /\ rendered' = model'
    /\ lastOp' = "tick"
    /\ UNCHANGED <<edits, pc, iter, callVars, fileVars>>

NextEditor ==
  \/ AddComponent
  \/ Connect
  \/ DeleteWire
  \/ DeleteComponent
  \/ Flip
  \/ Move
  \/ EditorTick

SpecEditor == InitEditor /\ [][NextEditor]_vars

-----------------------------------------------------------------------------
(* The engine's updateStatefulComponents next to the tick of the App *)

(* c.props.lastTick || 0 *)
lastTickOf(c) == IF "lastTick" \in DOMAIN c.props THEN c.props.lastTick ELSE 0

(* faulty variant: the data wires of the registers are consumed *)
updateStatefulComponents_DropsWires(m, sig, prevSignals, t) ==
  [m EXCEPT !.wires = SelectSeq(@, LAMBDA w : w.to.port # "D")]

(* updateStatefulComponents(model, signals, prevSignals) at Date.now() = t *)
updateStatefulComponents(m, sig, prevSignals, t) ==
  [m EXCEPT !.components =
     [i \in DOMAIN m.components |->
        LET c == m.components[i]
            tick == t % 1000
            clk == wireSignal(m, sig, c.id, "CLK", "false")
            prevClk == wireSignal(m, prevSignals, c.id, "CLK", "false")
            en == wireSignal(m, sig, c.id, "EN", "true")
            d == wireSignal(m, sig, c.id, "D", "false")
        IN IF c.type = "CLOCK"
           THEN IF tick < 500 /\ lastTickOf(c) >= 500
                THEN [c EXCEPT !.props =
                        [lastTick |-> tick, state |-> FromBool(~Truthy(c.props.state))] @@ @]
                ELSE [c EXCEPT !.props = [lastTick |-> tick] @@ @]
           ELSE IF c.type = "REGISTER" /\ captures(clk, prevClk, en)
           THEN [c EXCEPT !.props = [@ EXCEPT !.state = d]]
           ELSE c]]

(* a CLOCK ik and a REGISTER ir inside a definition, with data pin i1 *)
StatefulDefinition ==
  CustomComponentDefinition("stateful", <<"i1">>, <<"il">>,
    CircuitModel(<<Component("i1", "TOGGLE", "false"), Component("ik", "CLOCK", "false"),
                   Component("ir", "REGISTER", "false"), Component("il", "LED", "undefined")>>,
                 <<Wire("v1", "ik", "OUT", "ir", "CLK"), Wire("v2", "i1", "OUT", "ir", "D"),
                   Wire("v3", "ir", "OUT", "il", "IN")>>))

(* a clocked register next to a CUSTOM component that holds a clock and a register *)
NestedStateful ==
  CircuitModel(<<Component("k", "CLOCK", "false"), Component("d", "TOGGLE", "true"),
                 Component("r", "REGISTER", "false"), CustomComponent("c", StatefulDefinition),
                 Component("g", "NOT", "undefined"), Component("l", "LED", "undefined")>>,
               <<Wire("w1", "k", "OUT", "r", "CLK"), Wire("w2", "d", "OUT", "r", "D"),
                 Wire("w3", "d", "OUT", "c", "IN0"), Wire("w4", "c", "OUT0", "g", "A"),
                 Wire("w5", "g", "OUT", "l", "IN")>>)

DriverDesigns == {NestedStateful, RegisterBench, ClockOnly, Feedback}

InitDriver ==
  /\ model \in DriverDesigns
  /\ signals = EmptySignals
  /\ prevSignalsRef = EmptySignals
  /\ now = 0
  /\ lastOp = "init"
  /\ pc = "idle"
  /\ iter = 0
  /\ rendered = model
  /\ edits = 0
  /\ returned = NoCalls
  /\ NoFile

(* a driver step built on the engine's function: the model is updated from *)
(* the signals of the model and the signals of the step before              *)
UpdateStateful ==
  \E t \in Times :
    /\ signals' = evaluate(model)
    /\ model' = updateStatefulComponents(model, signals', signals, t)
    /\ now' = t
    /\ lastOp' = "update"
    /\ rendered' = model'
    /\ UNCHANGED <<prevSignalsRef, edits, pc, iter, callVars, fileVars>>

NextDriver == Tick \/ FlipToggle \/ UpdateStateful

SpecDriver == InitDriver /\ [][NextDriver]_vars

-----------------------------------------------------------------------------
(* The editor and the tick when an event is handled before React has        *)
(* rendered the update before it: the Workspace handlers close over the     *)
(* model of the last render, the interval callback gets the current model   *)

InitInterleaved ==
  /\ model = LoadedRegister
  /\ signals = EmptySignals
  /\ prevSignalsRef = EmptySignals
  /\ now = 0
  /\ lastOp = "init"
  /\ pc = "idle"
  /\ iter = 0
  /\ rendered = model
  /\ edits = 0
  /\ returned = NoCalls
  /\ NoFile

DeleteUnrendered ==
  \E i \in DOMAIN rendered.components :
    /\ model' = onDelete(rendered, rendered.components[i].id)
    /\ lastOp' = "delete"
    /\ UNCHANGED rendered
    /\ editorFrame

FlipUnrendered ==
  \E i \in DOMAIN rendered.components :
    /\ rendered.components[i].type = "TOGGLE"
    /\ model' = onUpdate(rendered, rendered.components[i])
    /\ lastOp' = "flip"
    /\ UNCHANGED rendered
    /\ editorFrame

MoveUnrendered ==
  \E i \in DOMAIN rendered.components, drag \in Drags :
    /\ model' = onMove(rendered, rendered.components[i], drag[1], drag[2])
    /\ lastOp' = "move"
    /\ UNCHANGED rendered
    /\ editorFrame

(* setModel(currentModel => ...): the updater gets the current model *)
TickUnrendered ==
  \E t \in EditorTimes :
    /\ model' = finalModel(model, t)
    /\ signals' = finalSignals(model, t)
    /\ prevSignalsRef' = currentSignals(model, t)
    /\ now' = t
    /\ lastOp' = "tick"
    /\ UNCHANGED <<editorVars, pc, iter, callVars, fileVars>>

(* React renders the Workspace with the current model, then its effect runs *)
Render ==
  /\ rendered # model
  /\ rendered' = model
  /\ model' = keepWithinBounds(model)
  /\ lastOp' = "render"
  /\ UNCHANGED <<edits, signals, prevSignalsRef, now, pc, iter, callVars, fileVars>>

NextInterleaved ==
  \/ DeleteUnrendered
  \/ FlipUnrendered
  \/ MoveUnrendered
  \/ TickUnrendered
  \/ Render

SpecInterleaved == InitInterleaved /\ [][NextInterleaved]_vars

-----------------------------------------------------------------------------
(* utils/json.ts: designs as parsed JSON values *)

(* a parsed JSON value of a scalar kind: t is its kind, s its text when it *)
(* is a string and n its value when it is a number                         *)
Js(t, s, n) == [t |-> t, s |-> s, n |-> n]

JsUndefined == Js("undefined", "", 0)

JsNull == Js("null", "", 0)

JsString(s) == Js("string", s, 0)

JsNumber(n) == Js("number", "", n)

(* typeof v *)
typeof(v) == IF v.t = "null" THEN "object" ELSE v.t

(* !!v *)
truthy(v) ==
  IF v.t \in {"undefined", "null"} THEN FALSE
  ELSE IF v.t = "string" THEN v.s # ""
  ELSE IF v.t = "number" THEN v.n # 0
  ELSE TRUE

(* v.f of a value v that is neither null nor undefined: undefined when v *)
(* has no such member                                                     *)
member(v, f) == IF f \in DOMAIN v THEN v[f] ELSE JsUndefined

(* Array.isArray(v) *)
isArray(v) == "isArray" \in DOMAIN v /\ v.isArray

CURRENT_VERSION == "1.0.0"

(* a component, a wire, a model and a design as JSON values *)
rawComponent(c) ==
  [t |-> "object", id |-> JsString(c.id), type |-> JsString(c.type),
   x |-> JsNumber(c.x), y |-> JsNumber(c.y),
   props |-> [t |-> "object", fields |-> c.props], customDef |-> c.customDef]

rawEnd(e) == [t |-> "object", compId |-> JsString(e.compId), port |-> JsString(e.port)]

rawWire(w) ==
  [t |-> "object", id |-> JsString(w.id), from |-> rawEnd(w.from), to |-> rawEnd(w.to)]

rawArray(items) == [t |-> "object", isArray |-> TRUE, items |-> items]

rawModel(m) ==
  [t |-> "object",
   components |-> rawArray([i \in DOMAIN m.components |-> rawComponent(m.components[i])]),
   wires |-> rawArray([i \in DOMAIN m.wires |-> rawWire(m.wires[i])])]

rawDesign(version, timestamp, m) ==
  [t |-> "object", version |-> version, timestamp |-> timestamp,
   name |-> JsUndefined, description |-> JsUndefined, model |-> m]

(* the Component, Wire and CircuitModel that a validated JSON value is *)
asComponent(raw) ==
  [id |-> raw.id.s, type |-> raw.type.s, x |-> raw.x.n, y |-> raw.y.n,
   props |-> raw.props.fields, customDef |-> raw.customDef]

asWire(raw) ==
  [id |-> raw.id.s,
   from |-> [compId |-> raw.from.compId.s, port |-> raw.from.port.s],
   to |-> [compId |-> raw.to.compId.s, port |-> raw.to.port.s]]

asModel(raw) ==
  CircuitModel([i \in DOMAIN raw.components.items |-> asComponent(raw.components.items[i])],
               [i \in DOMAIN raw.wires.items |-> asWire(raw.wires.items[i])])

isValidComponent(comp) ==
  /\ truthy(comp)
  /\ typeof(member(comp, "id")) = "string"
  /\ typeof(member(comp, "type")) = "string"
  /\ typeof(member(comp, "x")) = "number"
  /\ typeof(member(comp, "y")) = "number"
  /\ typeof(member(comp, "props")) = "object"
  /\ member(comp, "props").t # "null"

isValidWire(wire) ==
  /\ truthy(wire)
  /\ typeof(member(wire, "id")) = "string"
  /\ truthy(member(wire, "from"))
  /\ typeof(member(member(wire, "from"), "compId")) = "string"
  /\ typeof(member(member(wire, "from"), "port")) = "string"
  /\ truthy(member(wire, "to"))
  /\ typeof(member(member(wire, "to"), "compId")) = "string"
  /\ typeof(member(member(wire, "to"), "port")) = "string"

isValidCircuitModel(m) ==
  /\ truthy(m)
  /\ isArray(member(m, "components"))
  /\ isArray(member(m, "wires"))
  /\ \A i \in DOMAIN m.components.items : isValidComponent(m.components.items[i])
  /\ \A i \in DOMAIN m.wires.items : isValidWire(m.wires.items[i])

failure(error) == [success |-> FALSE, error |-> error]

(* faulty variant: a design of another version is turned away *)
deserializeDesign_RejectsOtherVersions(data) ==
  IF ~truthy(data) \/ typeof(data) # "object"
  THEN failure("Invalid JSON structure")
  ELSE IF ~truthy(member(data, "version")) \/ typeof(member(data, "version")) # "string"
  THEN failure("Missing or invalid version field")
  ELSE IF ~truthy(member(data, "timestamp")) \/ typeof(member(data, "timestamp")) # "string"
  THEN failure("Missing or invalid timestamp field")
  ELSE IF ~truthy(member(data, "model"))
  THEN failure("Missing model field")
  ELSE IF ~isValidCircuitModel(data.model)
  THEN failure("Invalid circuit model structure")
  ELSE IF data.version.s # CURRENT_VERSION
  THEN failure("Unsupported version")
  ELSE [success |-> TRUE, model |-> asModel(data.model),
        metadata |-> [name |-> member(data, "name"),
                      description |-> member(data, "description"),
                      version |-> data.version, timestamp |-> data.timestamp]]

deserializeDesign(data) ==
  IF ~truthy(data) \/ typeof(data) # "object"
  THEN failure("Invalid JSON structure")
  ELSE IF ~truthy(member(data, "version")) \/ typeof(member(data, "version")) # "string"
  THEN failure("Missing or invalid version field")
  ELSE IF ~truthy(member(data, "timestamp")) \/ typeof(member(data, "timestamp")) # "string"
  THEN failure("Missing or invalid timestamp field")
  ELSE IF ~truthy(member(data, "model"))
  THEN failure("Missing model field")
  ELSE IF ~isValidCircuitModel(data.model)
  THEN failure("Invalid circuit model structure")
  ELSE [success |-> TRUE, model |-> asModel(data.model),
        metadata |-> [name |-> member(data, "name"),
                      description |-> member(data, "description"),
                      version |-> data.version, timestamp |-> data.timestamp]]

(* a filename is the sequence of its characters *)
toLowerCase(ch) ==
  IF ch = "J" THEN "j" ELSE IF ch = "S" THEN "s" ELSE IF ch = "O" THEN "o"
  ELSE IF ch = "N" THEN "n" ELSE ch

(* /\.json$/i matches *)
matchesJsonSuffix(f) ==
  /\ Len(f) >= 5
  /\ [i \in 1..5 |-> toLowerCase(f[Len(f) - 5 + i])] = <<".", "j", "s", "o", "n">>

(* filename.replace(/\.json$/i, '') *)
withoutJsonSuffix(f) == IF matchesJsonSuffix(f) THEN SubSeq(f, 1, Len(f) - 5) ELSE f

(* faulty variant: a design needs an input and an output *)
createCustomComponentFromDesign_RequiresBoth(data, file) ==
  LET r == deserializeDesign(data)
  IN IF ~r.success THEN r
     ELSE LET toggles == SelectSeq(r.model.components, LAMBDA c : c.type = "TOGGLE")
              leds == SelectSeq(r.model.components, LAMBDA c : c.type = "LED")
          IN IF Len(toggles) = 0 \/ Len(leds) = 0
             THEN failure("Design must contain at least one TOGGLE (input) or LED (output) component")
             ELSE [success |-> TRUE,
                   definition |-> CustomComponentDefinition(
                      withoutJsonSuffix(file),
                      [i \in DOMAIN toggles |-> toggles[i].id],
                      [i \in DOMAIN leds |-> leds[i].id],
                      r.model)]

createCustomComponentFromDesign(data, file) ==
  LET r == deserializeDesign(data)
  IN IF ~r.success THEN r
     ELSE LET toggles == SelectSeq(r.model.components, LAMBDA c : c.type = "TOGGLE")
              leds == SelectSeq(r.model.components, LAMBDA c : c.type = "LED")
          IN IF Len(toggles) = 0 /\ Len(leds) = 0
             THEN failure("Design must contain at least one TOGGLE (input) or LED (output) component")
             ELSE [success |-> TRUE,
                   definition |-> CustomComponentDefinition(
                      withoutJsonSuffix(file),
                      [i \in DOMAIN toggles |-> toggles[i].id],
                      [i \in DOMAIN leds |-> leds[i].id],
                      r.model)]

MaxImport == 3

ImportKinds == {"TOGGLE", "LED", "AND"}

(* a design with components m1, m2, ... of the given kinds, m1 wired to m2 *)
ImportModel(kinds) ==
  CircuitModel([i \in DOMAIN kinds |->
                  Component(PortName("m", i), kinds[i],
                            IF kinds[i] = "TOGGLE" THEN "true" ELSE "undefined")],
               IF Len(kinds) >= 2 /\ kinds[1] # "LED"
               THEN <<Wire("w1", "m1", "OUT", "m2", IF kinds[2] = "LED" THEN "IN" ELSE "A")>>
               ELSE <<>>)

ImportModels == {ImportModel(kinds) : kinds \in UNION {[1..n -> ImportKinds] : n \in 0..MaxImport}}

Timestamp == JsString("2025-01-01T00:00:00.000Z")

(* values that are no string, no number, no object *)
NoStrings == {JsUndefined, JsNull, JsNumber(1)}

NoNumbers == {JsUndefined, JsNull, JsString("120")}

NoObjects == {JsUndefined, JsNull, JsNumber(1), JsString("m1")}

OtherVersions == {"0.9.0", "2.0.0"}

(* a design as serializeDesign writes it: a toggle m1 wired to an LED m2 *)
WrittenDesign ==
  rawDesign(JsString(CURRENT_VERSION), Timestamp, rawModel(ImportModel(<<"TOGGLE", "LED">>)))

(* the written design with its first component, its wire or its model replaced *)
withComponent(c) == [WrittenDesign EXCEPT !.model.components.items[1] = c]

withWire(w) == [WrittenDesign EXCEPT !.model.wires.items[1] = w]

withModel(m) == [WrittenDesign EXCEPT !.model = m]

MalformedComponents ==
  LET c == WrittenDesign.model.components.items[1]
  IN {[c EXCEPT !.id = v] : v \in NoStrings}
     \cup {[c EXCEPT !.type = v] : v \in NoStrings}
     \cup {[c EXCEPT !.x = v] : v \in NoNumbers}
     \cup {[c EXCEPT !.y = v] : v \in NoNumbers}
     \cup {[c EXCEPT !.props = v] : v \in NoObjects}
     \cup NoObjects

MalformedWires ==
  LET w == WrittenDesign.model.wires.items[1]
  IN {[w EXCEPT !.id = v] : v \in NoStrings}
     \cup {[w EXCEPT !.from = v] : v \in NoObjects}
     \cup {[w EXCEPT !.to = v] : v \in NoObjects}
     \cup {[w EXCEPT !.from.compId = v] : v \in NoStrings}
     \cup {[w EXCEPT !.from.port = v] : v \in NoStrings}
     \cup {[w EXCEPT !.to.compId = v] : v \in NoStrings}
     \cup {[w EXCEPT !.to.port = v] : v \in NoStrings}
     \cup NoObjects

MalformedModels ==
  LET m == WrittenDesign.model
  IN {JsUndefined, JsNull, JsNumber(5),
      [m EXCEPT !.components = [t |-> "object", length |-> JsNumber(0)]],
      [m EXCEPT !.components = JsUndefined],
      [m EXCEPT !.wires = JsUndefined],
      [m EXCEPT !.wires = JsString("none")]}

(* parsed file contents: designs as serializeDesign writes them, designs of *)
(* another version, and values that are no design                          *)
DesignInputs ==
  {rawDesign(JsString(CURRENT_VERSION), Timestamp, rawModel(m)) : m \in ImportModels}
  \cup {rawDesign(JsString(v), Timestamp, rawModel(m)) :
          v \in OtherVersions, m \in {ImportModel(<<"TOGGLE", "LED">>), EmptyModel}}
  \cup {[WrittenDesign EXCEPT !.version = v] : v \in NoStrings \cup {JsString("")}}
  \cup {[WrittenDesign EXCEPT !.timestamp = v] : v \in NoStrings \cup {JsString("")}}
  \cup {withModel(m) : m \in MalformedModels}
  \cup {withComponent(c) : c \in MalformedComponents}
  \cup {withWire(w) : w \in MalformedWires}
  \cup {JsNull, JsUndefined, JsNumber(0), JsNumber(3), JsString(""), JsString("pulse")}

Filenames ==
  {<<"a", "n", "d", ".", "j", "s", "o", "n">>,
   <<"a", "n", "d", ".", "J", "S", "O", "N">>,
   <<"a", "n", "d">>,
   <<"a", ".", "j", "s", "o", "n", ".", "t", "x", "t">>,
   <<"a", ".", "j", "s", "o", "n", ".", "j", "s", "o", "n">>,
   <<".", "j", "s", "o", "n">>,
   <<"a", "j", "s", "o", "n">>,
   <<>>}

InitImport ==
  /\ model = EmptyModel
  /\ signals = EmptySignals
  /\ prevSignalsRef = EmptySignals
  /\ now = 0
  /\ lastOp = "init"
  /\ pc = "idle"
  /\ iter = 0
  /\ rendered = model
  /\ edits = 0
  /\ returned = NoCalls
  /\ designData \in DesignInputs
  /\ filename \in Filenames
  /\ result = "none"

(* App.handleLoad: the chosen file replaces the model when it is a design *)
LoadDesign ==
  /\ lastOp = "init"
  /\ result' = deserializeDesign(designData)
  /\ model' = IF result'.success THEN result'.model ELSE model
  /\ rendered' = model'
  /\ lastOp' = "load"
  /\ UNCHANGED <<signals, prevSignalsRef, now, pc, iter, edits, callVars,
                 designData, filename>>

(* Palette: a design file is turned into a custom component definition *)
ImportCustom ==
  /\ lastOp = "init"
  /\ result' = createCustomComponentFromDesign(designData, filename)
  /\ lastOp' = "import"
  /\ UNCHANGED <<model, signals, prevSignalsRef, now, pc, iter, editorVars, callVars,
                 designData, filename>>

NextImport == ImportCustom \/ LoadDesign

SpecImport == InitImport /\ [][NextImport]_vars


-----------------------------------------------------------------------------
(* Saving the edited design *)

(* new Date(t).toISOString() *)
toISOString(t) ==
  IF t = 0 THEN "1970-01-01T00:00:00.000Z"
  ELSE IF t = 249 THEN "1970-01-01T00:00:00.249Z"
  ELSE IF t = 250 THEN "1970-01-01T00:00:00.250Z"
  ELSE "1970-01-01T00:00:00.500Z"

(* faulty variant: the props of the components are not written *)
serializeDesign_DropsProps(m, t) ==
  rawDesign(JsString(CURRENT_VERSION), JsString(toISOString(t)),
            [rawModel(m) EXCEPT !.components.items =
               [i \in DOMAIN @ |-> [@[i] EXCEPT !.props = JsUndefined]]])

(* serializeDesign(model) at Date.now() = t: name and description are not given *)
serializeDesign(m, t) ==
  rawDesign(JsString(CURRENT_VERSION), JsString(toISOString(t)), rawModel(m))

(* App.handleSave: the rendered model is written unless it is empty *)
Save ==
  /\ ~(Len(rendered.components) = 0 /\ Len(rendered.wires) = 0)
  /\ designData' = serializeDesign(rendered, now)
  /\ lastOp' = "save"
  /\ edits < MaxEdits
  /\ edits' = edits + 1
  /\ UNCHANGED <<model, rendered, signals, prevSignalsRef, now, pc, iter, callVars,
                 filename, result>>

(* a loaded design: a custom AND c whose first output lights the LED l *)
LoadedCustom ==
  CircuitModel(<<CustomComponent("c", AndDefinition(FALSE, TRUE)), Component("l", "LED", "undefined")>>,
               <<Wire("w1", "c", "OUT0", "l", "IN")>>)

SaveDesigns == {EmptyModel, LoadedRegister, LoadedCustom}

InitSave ==
  /\ model \in SaveDesigns
  /\ signals = EmptySignals
  /\ prevSignalsRef = EmptySignals
  /\ now = 0
  /\ lastOp = "init"
  /\ pc = "idle"
  /\ iter = 0
  /\ rendered = model
  /\ edits = 0
  /\ returned = NoCalls
  /\ NoFile

(* a session is followed up to its first save *)
NextSave ==
  \/ lastOp # "save" /\ AddComponent
  \/ lastOp # "save" /\ Connect
  \/ lastOp # "save" /\ DeleteWire
  \/ lastOp # "save" /\ DeleteComponent
  \/ lastOp # "save" /\ Flip
  \/ lastOp # "save" /\ Move
  \/ lastOp # "save" /\ EditorTick
  \/ Save

SpecSave == InitSave /\ [][NextSave]_vars

-----------------------------------------------------------------------------
(* Vocabulary of the properties *)

Ids(m) == {m.components[i].id : i \in DOMAIN m.components}

Edges(m) == {<<m.wires[i].from.compId, m.wires[i].to.compId>> : i \in DOMAIN m.wires}

(* no cycle: every non-empty set of components has a member that no member drives *)
Acyclic(m) ==
  \A S \in SUBSET Ids(m) :
    S # {} => \E n \in S : \A d \in S : <<d, n>> \notin Edges(m)

SingleDriver(m) ==
  \A i, j \in DOMAIN m.wires : m.wires[i].to = m.wires[j].to => i = j

WiresTo(m, id, port) ==
  {i \in DOMAIN m.wires : m.wires[i].to.compId = id /\ m.wires[i].to.port = port}

(* the signal that the wire into (id, port) carries; false without a wire *)
DrivenSignal(m, sig, id, port) ==
  \E i \in WiresTo(m, id, port) :
    Get(sig, <<m.wires[i].from.compId, m.wires[i].from.port>>) = "true"

StandardGate(kind, a, b) ==
  CASE kind = "NOT"  -> (a = FALSE)
    [] kind = "AND"  -> (a = TRUE /\ b = TRUE)
    [] kind = "OR"   -> ~(a = FALSE /\ b = FALSE)
    [] kind = "NAND" -> (a = FALSE \/ b = FALSE)
    [] kind = "NOR"  -> (a = FALSE /\ b = FALSE)
    [] kind = "XOR"  -> ((a /\ ~b) \/ (~a /\ b))
    [] kind = "XNOR" -> ((a /\ b) \/ (~a /\ ~b))

(* the internal circuit of c with every input-pin TOGGLE set to the signal  *)
(* that drives the corresponding external input                             *)
SubstitutedInternal(m, sig, c) ==
  LET def == c.customDef[1]
      pinsOf(id) == {i \in DOMAIN def.inputPins : def.inputPins[i] = id}
      firstPin(id) == CHOOSE i \in pinsOf(id) : \A j \in pinsOf(id) : i <= j
  IN [def.internalModel EXCEPT !.components =
        [n \in DOMAIN def.internalModel.components |->
           LET ic == def.internalModel.components[n]
           IN IF ic.type = "TOGGLE" /\ pinsOf(ic.id) # {}
              THEN [ic EXCEPT !.props.state =
                      IF DrivenSignal(m, sig, c.id, PortName("IN", firstPin(ic.id) - 1))
                      THEN "true" ELSE "false"]
              ELSE ic]]

(* output j (from 0) of the CUSTOM component c, by evaluating its internal circuit *)
ExpectedCustomOutput(m, sig, c, j) ==
  Get(evaluate(SubstitutedInternal(m, sig, c)), <<c.customDef[1].outputPins[j + 1], "OUT">>)
    = "true"

ExpectedOut(m, sig, c) ==
  CASE c.type \in {"TOGGLE", "CLOCK", "REGISTER"} -> c.props.state = "true"
    [] c.type = "LED" -> DrivenSignal(m, sig, c.id, "IN")
    [] c.type \in GateTypes ->
         StandardGate(c.type, DrivenSignal(m, sig, c.id, "A"), DrivenSignal(m, sig, c.id, "B"))
    [] c.type = "CUSTOM" ->
         /\ Len(c.customDef) = 1
         /\ Len(c.customDef[1].outputPins) > 0
         /\ ExpectedCustomOutput(m, sig, c, 0)
    [] OTHER -> FALSE

ById(m, id) == m.components[CHOOSE i \in DOMAIN m.components : m.components[i].id = id]

IsGateCircuit(m) ==
  /\ Len(m.components) = 4
  /\ Ids(m) = {"t1", "t2", "g", "led"}
  /\ ById(m, "g").type \in GateTypes

HasFanOut(m) ==
  \E i, j \in DOMAIN m.wires :
    m.wires[i].from = m.wires[j].from /\ m.wires[i].to # m.wires[j].to

-----------------------------------------------------------------------------
(* C1: for an acyclic model with at most one wire per input port, the map  *)
(* evaluate returns is consistent: every component's OUT is its per-kind    *)
(* output function of the returned signals that drive its inputs; in        *)
(* t1 -> AND.A, t2 -> AND.B, AND -> LED both AND and LED show t1 and t2.     *)
C1_AcyclicConsistent ==
  (pc = "done" /\ Acyclic(model) /\ SingleDriver(model)) =>
    /\ \A i \in DOMAIN model.components :
         Get(signals, <<model.components[i].id, "OUT">>)
           = FromBool(ExpectedOut(model, signals, model.components[i]))
    /\ (IsGateCircuit(model) /\ ById(model, "g").type = "AND") =>
         LET both == ById(model, "t1").props.state = "true"
                     /\ ById(model, "t2").props.state = "true"
         IN /\ Get(signals, <<"g", "OUT">>) = FromBool(both)
            /\ Get(signals, <<"led", "OUT">>) = FromBool(both)

(* an LED listed before the gates that feed it, behind a fanned-out toggle, is lit *)
C1_Witness ==
  /\ pc = "done"
  /\ Acyclic(model) /\ SingleDriver(model) /\ HasFanOut(model)
  /\ model.components[1].id = "led"
  /\ Get(signals, <<"led", "OUT">>) = "true"

(* C2: with TOGGLEs holding a and b wired to A and B of a gate, evaluate    *)
(* returns the standard truth table of AND, OR, NAND, NOR, XOR, XNOR, NOT.   *)
C2_TruthTables ==
  (pc = "done" /\ IsGateCircuit(model)) =>
    LET a == ById(model, "t1").props.state = "true"
        b == ById(model, "t2").props.state = "true"
        out == Get(signals, <<"g", "OUT">>)
        kind == ById(model, "g").type
    IN /\ kind = "AND"  => out = FromBool(a /\ b)
       /\ kind = "OR"   => out = FromBool(a \/ b)
       /\ kind = "NAND" => out = FromBool(~(a /\ b))
       /\ kind = "NOR"  => out = FromBool(~(a \/ b))
       /\ kind = "XOR"  => out = FromBool(a # b)
       /\ kind = "XNOR" => out = FromBool(a = b)
       /\ kind = "NOT"  => out = FromBool(~a)

C2_Witness ==
  /\ pc = "done"
  /\ IsGateCircuit(model)
  /\ ById(model, "g").type = "NOR"
  /\ ById(model, "t1").props.state = "false"
  /\ ById(model, "t2").props.state = "false"
  /\ Get(signals, <<"g", "OUT">>) = "true"

(* C3: evaluate terminates with a boolean for every component's OUT, also   *)
(* for feedback loops that never converge and for nested CUSTOM components; *)
(* the cyclic subset is re-evaluated at most 100 passes.                     *)
C3_EvaluateTerminates ==
  /\ [](iter <= MAX_ITER)
  /\ [](pc = "done" => \A id \in Ids(model) : <<id, "OUT">> \in DOMAIN signals)
  /\ <>(pc = "done")

(* a ring of three NOT gates has run into the ceiling and evaluate has returned *)
C3_Witness ==
  /\ pc = "done"
  /\ iter = MAX_ITER
  /\ model \in RingModelsOf(3)

(* C6: the returned map holds r.id:Q = r.props.state for every REGISTER r.  *)
C6_RegisterQ ==
  pc = "done" =>
    \A i \in DOMAIN model.components :
      model.components[i].type = "REGISTER" =>
        Get(signals, <<model.components[i].id, "Q">>)
          = FromBool(model.components[i].props.state = "true")

EvenRingModels == UNION {RingModelsOf(k) : k \in {n \in 1..MaxRing : n % 2 = 0}}

(* C8: on a ring of an even number of NOT gates, in any listing order,      *)
(* evaluate leaves the loop before the ceiling with every NOT's OUT the      *)
(* negation of its driver's OUT.                                             *)
C8_EvenRingConverges ==
  (pc = "done" /\ model \in EvenRingModels) =>
    /\ iter < MAX_ITER
    /\ \A i \in DOMAIN model.components :
         Get(signals, <<model.components[i].id, "OUT">>)
           = FromBool(~DrivenSignal(model, signals, model.components[i].id, "A"))

-----------------------------------------------------------------------------
(* Vocabulary of the tick properties *)

(* the clock level at instant t: high in the first half of each 500 ms period *)
ClockLevel(t) == (t % 500) \in 0..249

(* the model with every CLOCK at the level of instant t *)
AdvancedModel(m, t) ==
  [m EXCEPT !.components =
     [i \in DOMAIN m.components |->
        IF m.components[i].type = "CLOCK"
        THEN [m.components[i] EXCEPT !.props.state = FromBool(ClockLevel(t))]
        ELSE m.components[i]]]

(* the value sig holds for the driver of (id, port); dflt when no wire targets it *)
SignalInto(m, sig, id, port, dflt) ==
  IF WiresTo(m, id, port) = {} THEN dflt
  ELSE LET first == CHOOSE i \in WiresTo(m, id, port) : \A j \in WiresTo(m, id, port) : i <= j
       IN Get(sig, <<m.wires[first].from.compId, m.wires[first].from.port>>)

Registers(m) == {i \in DOMAIN m.components : m.components[i].type = "REGISTER"}

(* C4: in one tick a REGISTER's new state is d when clk and not prevClk and *)
(* en, and its old state otherwise; clk, d and en are read after the clock  *)
(* advance (D and CLK false, EN true without a wire), prevClk before it.     *)
(* While EN is false the state does not change.                              *)
C4_CaptureRule ==
  [][lastOp' = "tick" =>
       \A i \in Registers(model) :
         LET r == model.components[i]
             before == evaluate(model)
             after == evaluate(AdvancedModel(model, now'))
             clk == SignalInto(model, after, r.id, "CLK", "false") = "true"
             prevClk == SignalInto(model, before, r.id, "CLK", "false") = "true"
             en == SignalInto(model, after, r.id, "EN", "true") = "true"
             d == SignalInto(model, after, r.id, "D", "false")
         IN /\ model'.components[i].props.state
                 = IF clk /\ ~prevClk /\ en THEN d ELSE r.props.state
            /\ ~en => model'.components[i].props.state = r.props.state]_vars

(* the register of the bench has captured 1 through its wired, enabled EN input *)
C4_Witness ==
  /\ lastOp = "tick"
  /\ "e" \in Ids(model)
  /\ ById(model, "r").props.state = "true"
  /\ Get(signals, <<"e", "OUT">>) = "true"

(* C5: whenever the signal that drives a register's CLK is false in the map *)
(* published by one tick and true in the map published by the next tick,    *)
(* and EN is enabled, the register's state after that tick is its D input   *)
(* (D and EN as the tick sampled them, after its clock advance).             *)
C5_PublishedRisingEdgeCaptures ==
  [][(lastOp' = "tick" /\ lastOp \in {"tick", "flip"}) =>
       \A i \in Registers(model) :
         LET r == model.components[i]
         IN (/\ SignalInto(model, signals, r.id, "CLK", "false") = "false"
             /\ WiresTo(model, r.id, "CLK") # {}
             /\ SignalInto(model', signals', r.id, "CLK", "false") = "true"
             /\ SignalInto(model', prevSignalsRef', r.id, "EN", "true") = "true")
            => model'.components[i].props.state
                 = SignalInto(model', prevSignalsRef', r.id, "D", "false")]_vars

(* C7: at the end of every tick the published map is evaluate of the        *)
(* published model: a register's output shows the state it holds after the  *)
(* capture and a CLOCK's OUT the level it was advanced to.                   *)
C7_PublishedIsFresh ==
  lastOp = "tick" =>
    /\ signals = evaluate(model)
    /\ \A i \in DOMAIN model.components :
         LET c == model.components[i]
         IN /\ c.type = "REGISTER" =>
                 Get(signals, <<c.id, "OUT">>) = FromBool(c.props.state = "true")
            /\ c.type = "CLOCK" =>
                 Get(signals, <<c.id, "OUT">>) = FromBool(ClockLevel(now))

(* a register shows 1 in the published map while the map computed before  *)
(* the capture of the same tick still had it at 0                          *)
C7_Witness ==
  /\ lastOp = "tick"
  /\ \E i \in Registers(model) :
       /\ model.components[i].props.state = "true"
       /\ Get(signals, <<model.components[i].id, "OUT">>) = "true"
       /\ Get(prevSignalsRef, <<model.components[i].id, "OUT">>) = "false"

(* C9: while the signal that drives a register's CLK stays true - in the    *)
(* map the previous tick published, at the start of this tick and after its *)
(* clock advance - the tick leaves the register's state alone, also when D  *)
(* has changed in between.                                                   *)
C9_NoRecaptureWhileHigh ==
  [][lastOp' = "tick" =>
       \A i \in Registers(model) :
         LET r == model.components[i]
         IN (/\ SignalInto(model, signals, r.id, "CLK", "false") = "true"
             /\ SignalInto(model, evaluate(model), r.id, "CLK", "false") = "true"
             /\ SignalInto(model, evaluate(AdvancedModel(model, now')), r.id, "CLK", "false")
                  = "true")
            => model'.components[i].props.state = r.props.state]_vars

(* on the bench the clock is high, EN and D are 1, and the register still  *)
(* holds 0: D rose while the clock stayed high                              *)
C9_Witness ==
  /\ lastOp = "tick"
  /\ "e" \in Ids(model)
  /\ ById(model, "r").props.state = "false"
  /\ Get(signals, <<"k", "OUT">>) = "true"
  /\ Get(prevSignalsRef, <<"k", "OUT">>) = "true"
  /\ Get(signals, <<"d", "OUT">>) = "true"
  /\ Get(signals, <<"e", "OUT">>) = "true"

-----------------------------------------------------------------------------
(* C11: evaluate depends only on the model passed in: a call returns the   *)
(* map that every earlier call on the same model returned, whatever models  *)
(* were evaluated in between, and that map is evaluate(model).              *)
C11_SameModelSameSignals ==
  pc = "done" =>
    /\ signals = evaluate(model)
    /\ model \in DOMAIN returned => signals = returned[model]

(* the ring of three NOTs is evaluated again after another feedback ring    *)
(* and the orphan LED were evaluated                                        *)
C11_Witness ==
  /\ pc = "done"
  /\ model = CircuitModel(RingCircuit(3).components, RingCircuit(3).wires)
  /\ model \in DOMAIN returned
  /\ CircuitModel(RingCircuit(1).components, RingCircuit(1).wires) \in DOMAIN returned
  /\ OrphanLed \in DOMAIN returned
  /\ iter = MAX_ITER

(* the value a TOGGLE wired to (id, port) holds; FALSE for a port no wire targets *)
HeldInput(m, id, port) ==
  \E i \in WiresTo(m, id, port) :
    \E j \in DOMAIN m.components :
      /\ m.components[j].id = m.wires[i].from.compId
      /\ m.components[j].props.state = "true"

(* C12: an input port that no wire targets reads as false: a gate computes  *)
(* its table with false on that input (AND gives false, NOT gives true), an *)
(* LED without a wire is dark, and an undriven input INi of a CUSTOM         *)
(* component sets the mapped internal toggle to false.                       *)
C12_UndrivenReadsFalse ==
  pc = "done" =>
    /\ model \in UndrivenModels =>
         /\ Get(signals, <<"g", "OUT">>)
              = FromBool(StandardGate(ById(model, "g").type,
                                      HeldInput(model, "g", "A"), HeldInput(model, "g", "B")))
         /\ (ById(model, "g").type = "AND"
             /\ (WiresTo(model, "g", "A") = {} \/ WiresTo(model, "g", "B") = {}))
              => Get(signals, <<"g", "OUT">>) = "false"
         /\ (ById(model, "g").type = "NOT" /\ WiresTo(model, "g", "A") = {})
              => Get(signals, <<"g", "OUT">>) = "true"
         /\ Get(signals, <<"lone", "OUT">>) = "false"
    /\ \A i \in DOMAIN model.components :
         LET c == model.components[i]
         IN (c.type = "CUSTOM" /\ Len(c.customDef) = 1 /\ WiresTo(model, c.id, "IN0") = {}) =>
              /\ c.customDef[1].name = "and" => Get(signals, <<c.id, "OUT0">>) = "false"
              /\ c.customDef[1].name = "mixed" =>
                   Get(signals, <<c.id, "OUT0">>) = Get(signals, <<c.id, "OUT1">>)

(* a NOT gate without a wire on A outputs true, and so does the LED it feeds *)
C12_Witness ==
  /\ pc = "done"
  /\ model \in UndrivenModels
  /\ ById(model, "g").type = "NOT"
  /\ WiresTo(model, "g", "A") = {}
  /\ Get(signals, <<"led", "OUT">>) = "true"

(* an AND wrapper whose input IN0 has no wire while IN1 is driven true gives false *)
C12_WitnessCustom ==
  /\ pc = "done"
  /\ "c" \in Ids(model)
  /\ ById(model, "c").customDef = <<AndDefinition(TRUE, TRUE)>>
  /\ WiresTo(model, "c", "IN0") = {}
  /\ WiresTo(model, "c", "IN1") # {}
  /\ Get(signals, <<"x2", "OUT">>) = "true"
  /\ Get(signals, <<"c", "OUT0">>) = "false"

-----------------------------------------------------------------------------
(* The editor *)

(* the model without the wires whose source or destination is no component *)
withoutDangling(m) ==
  [m EXCEPT !.wires =
     SelectSeq(@, LAMBDA w : w.from.compId \in Ids(m) /\ w.to.compId \in Ids(m))]

HasDangling(m) == withoutDangling(m) # m

(* C13: evaluate returns for a model with dangling wires (source or         *)
(* destination component deleted) the signal map of the same model without *)
(* those wires: the signals a tick publishes are those of the model with    *)
(* its dangling wires removed.                                             *)
C13_DanglingWiresAbsent ==
  lastOp = "tick" => signals = evaluate(withoutDangling(model))

(* the same, for the models in which every input port has one driver at most *)
C13_DanglingSingleDriver ==
  (lastOp = "tick" /\ SingleDriver(model)) => signals = evaluate(withoutDangling(model))

(* C14: in every model reached by editor operations no two wires target the *)
(* same (component id, input port) pair.                                   *)
C14_SingleDriver == SingleDriver(model)

(* C15: after any sequence of editor operations and ticks props.state of    *)
(* every TOGGLE, CLOCK and REGISTER is a boolean.                           *)
C15_StateIsBoolean ==
  \A i \in DOMAIN model.components :
    model.components[i].type \in {"TOGGLE", "CLOCK", "REGISTER"}
      => model.components[i].props.state \in {"true", "false"}

-----------------------------------------------------------------------------
(* The frame of evaluate *)

(* C16: evaluate leaves its argument unchanged: the components, their props, *)
(* their definitions down to the toggles of every nested internal model, and *)
(* the wires are after the call what the caller passed (rendered holds the   *)
(* value passed); and two CUSTOM components of one definition with different *)
(* inputs each show the output of their own inputs.                          *)
C16_ArgumentUnchanged ==
  /\ pc # "ready" => model = rendered
  /\ (pc = "done" /\ model \in SharedModels) =>
       /\ Get(signals, <<"c1", "OUT0">>)
            = FromBool(ById(model, "x1").props.state = "true"
                       /\ ById(model, "x2").props.state = "true")
       /\ Get(signals, <<"c2", "OUT0">>)
            = FromBool(ById(model, "x3").props.state = "true"
                       /\ ById(model, "x4").props.state = "true")
       /\ Get(signals, <<"o1", "OUT">>) = Get(signals, <<"c1", "OUT0">>)
       /\ Get(signals, <<"o2", "OUT">>) = Get(signals, <<"c2", "OUT0">>)

(* two instances of a nested AND definition whose stored toggle i1 is false: *)
(* c1 is driven true on both inputs and shows true, c2 shows false           *)
C16_Witness ==
  /\ pc = "done"
  /\ model = SharedCircuit(NestDefinition(AndDefinition(FALSE, TRUE), 2),
                           TRUE, TRUE, TRUE, FALSE)
  /\ rendered = model
  /\ Get(signals, <<"c1", "OUT0">>) = "true"
  /\ Get(signals, <<"c2", "OUT0">>) = "false"

-----------------------------------------------------------------------------
(* The frame of a tick *)

(* everything of m that a tick may not touch is the same in n *)
FrameKept(m, n) ==
  /\ n.wires = m.wires
  /\ Len(n.components) = Len(m.components)
  /\ \A i \in DOMAIN m.components :
       /\ n.components[i].id = m.components[i].id
       /\ n.components[i].type = m.components[i].type
       /\ n.components[i].x = m.components[i].x
       /\ n.components[i].y = m.components[i].y
       /\ n.components[i].customDef = m.components[i].customDef
       /\ m.components[i].type \notin {"CLOCK", "REGISTER"}
            => n.components[i].props = m.components[i].props

(* C17: a tick of the driver, and a call of updateStatefulComponents, change *)
(* nothing but the props of top-level CLOCK and REGISTER components: wires,  *)
(* number and order of components, ids, types, positions, definitions (with  *)
(* the clocks and registers nested in them) and the props of every other     *)
(* component stay.                                                           *)
C17_TickFrame ==
  [][lastOp' \in {"tick", "update"} => FrameKept(model, model')]_vars

(* updateStatefulComponents has raised the clock k and the register r has   *)
(* captured, while the clock and the register inside c are as loaded        *)
C17_Witness ==
  /\ lastOp = "update"
  /\ "c" \in Ids(model)
  /\ ById(model, "c").customDef = <<StatefulDefinition>>
  /\ ById(model, "k").props.state = "true"
  /\ lastTickOf(ById(model, "k")) = 249
  /\ ById(model, "r").props.state = "true"

-----------------------------------------------------------------------------
(* Ticks and editor actions interleaved *)

(* n is m with the components at the indexes in changed replaced *)
SameBut(m, n, changed) ==
  /\ n.wires = m.wires
  /\ Len(n.components) = Len(m.components)
  /\ \A j \in DOMAIN m.components :
       j \notin changed => n.components[j] = m.components[j]

(* n is what one editor action of kind op makes of the current model m *)
OneEdit(op, m, n) ==
  \/ /\ op = "flip"
     /\ \E i \in DOMAIN m.components :
          /\ SameBut(m, n, {i})
          /\ m.components[i].type = "TOGGLE"
          /\ n.components[i] = [m.components[i] EXCEPT !.props =
                                  [@ EXCEPT !.state = FromBool(~Truthy(@))]]
  \/ /\ op = "move"
     /\ \E i \in DOMAIN m.components :
          /\ SameBut(m, n, {i})
          /\ [n.components[i] EXCEPT !.x = 0, !.y = 0]
               = [m.components[i] EXCEPT !.x = 0, !.y = 0]
  \/ /\ op = "connect"
     /\ n.components = m.components
     /\ Len(n.wires) = Len(m.wires) + 1
     /\ SubSeq(n.wires, 1, Len(m.wires)) = m.wires
  \/ /\ op = "delete"
     /\ n.wires = m.wires
     /\ \E i \in DOMAIN m.components :
          n.components = SubSeq(m.components, 1, i - 1)
                         \o SubSeq(m.components, i + 1, Len(m.components))

(* C18: no model update is lost under any interleaving of ticks and editor   *)
(* actions: a tick computes its model from the current model; an editor      *)
(* action keeps the props of every CLOCK and REGISTER that a tick wrote      *)
(* since the snapshot, and keeps the effect of any other editor action, so   *)
(* that the new model is the current model with that one action applied.     *)
C18_NoLostUpdate ==
  [][/\ lastOp' = "tick" => model' = finalModel(model, now')
     /\ lastOp' \in {"flip", "move", "connect", "delete"} =>
          /\ \A i \in DOMAIN model.components, j \in DOMAIN model'.components :
               (/\ model.components[i].id = model'.components[j].id
                /\ model.components[i].type \in {"CLOCK", "REGISTER"})
                 => model'.components[j].props = model.components[i].props
          /\ OneEdit(lastOp', model, model')]_vars

-----------------------------------------------------------------------------
(* The clock *)

(* C19: after every tick the state of each top-level CLOCK is determined by  *)
(* the wall-clock time of the tick alone: high exactly when the time modulo  *)
(* the period lies in the first half of the period, whatever the clock's     *)
(* state before, the number of ticks so far and their spacing.               *)
C19_ClockFollowsTime ==
  lastOp = "tick" =>
    \A i \in DOMAIN model.components :
      model.components[i].type = "CLOCK" =>
        model.components[i].props.state
          = (IF 2 * (now % period) < period THEN "true" ELSE "false")

(* a tick in the low half of the period has lowered the clock k, which an   *)
(* earlier tick had raised: the register r has captured on that edge        *)
C19_Witness ==
  /\ lastOp = "tick"
  /\ now = 250
  /\ model.wires = RegisterBench.wires
  /\ ById(model, "k").props.state = "false"
  /\ ById(model, "r").props.state = "true"

-----------------------------------------------------------------------------
(* Custom components from design files *)

(* the ids of the components of the given type, in the order of the model *)
IdsOfType(m, type) ==
  LET idx == {i \in DOMAIN m.components : m.components[i].type = type}
      place(i) == Cardinality({j \in idx : j <= i})
  IN [p \in 1..Cardinality(idx) |->
        m.components[CHOOSE i \in idx : place(i) = p].id]

(* C20: createCustomComponentFromDesign on a design that deserializeDesign  *)
(* accepts succeeds iff the design has a TOGGLE or an LED; then inputPins   *)
(* are the ids of the TOGGLEs and outputPins the ids of the LEDs in model   *)
(* order, internalModel is the design's model and name is the filename      *)
(* without its .json extension; a design that deserializeDesign rejects     *)
(* yields that same failure.                                                *)
C20_CustomFromDesign ==
  lastOp = "import" =>
    LET loaded == deserializeDesign(designData)
    IN IF loaded.success
       THEN /\ result.success <=>
                 \E i \in DOMAIN loaded.model.components :
                   loaded.model.components[i].type \in {"TOGGLE", "LED"}
            /\ result.success =>
                 /\ result.definition.inputPins = IdsOfType(loaded.model, "TOGGLE")
                 /\ result.definition.outputPins = IdsOfType(loaded.model, "LED")
                 /\ result.definition.internalModel = asModel(designData.model)
                 /\ \/ /\ result.definition.name = filename
                       /\ ~matchesJsonSuffix(filename)
                    \/ /\ matchesJsonSuffix(filename)
                       /\ Len(result.definition.name) = Len(filename) - 5
                       /\ result.definition.name
                            \o SubSeq(filename, Len(filename) - 4, Len(filename)) = filename
       ELSE result = loaded

(* a design of an LED, an AND gate and another LED, without a TOGGLE, from  *)
(* and.JSON: the definition "and" has no input and two outputs              *)
C20_Witness ==
  /\ lastOp = "import"
  /\ designData = rawDesign(JsString(CURRENT_VERSION), Timestamp,
                            rawModel(ImportModel(<<"LED", "AND", "LED">>)))
  /\ filename = <<"a", "n", "d", ".", "J", "S", "O", "N">>
  /\ result.success
  /\ result.definition.name = <<"a", "n", "d">>
  /\ result.definition.inputPins = <<>>
  /\ result.definition.outputPins = <<"m1", "m3">>


-----------------------------------------------------------------------------
(* C21: malformed designs are turned away with a message *)

IsObject(v) == v.t = "object"

HasString(v, f) == member(v, f).t = "string"

HasNumber(v, f) == member(v, f).t = "number"

WellFormedEnd(e) == IsObject(e) /\ HasString(e, "compId") /\ HasString(e, "port")

WellFormedComponent(c) ==
  /\ IsObject(c)
  /\ HasString(c, "id") /\ HasString(c, "type")
  /\ HasNumber(c, "x") /\ HasNumber(c, "y")
  /\ IsObject(member(c, "props"))

WellFormedWire(w) ==
  /\ IsObject(w)
  /\ HasString(w, "id")
  /\ WellFormedEnd(member(w, "from")) /\ WellFormedEnd(member(w, "to"))

ItemsOf(v) == IF isArray(v) THEN {v.items[i] : i \in DOMAIN v.items} ELSE {}

(* the inputs the claim lists *)
Listed(d) ==
  \/ ~IsObject(d)
  \/ ~HasString(d, "version")
  \/ ~HasString(d, "timestamp")
  \/ member(d, "model").t \in {"undefined", "null"}
  \/ /\ IsObject(member(d, "model"))
     /\ \/ \E c \in ItemsOf(member(d.model, "components")) : ~WellFormedComponent(c)
        \/ \E w \in ItemsOf(member(d.model, "wires")) : ~WellFormedWire(w)

C21_WitnessOtherVersion ==
  /\ lastOp = "load"
  /\ designData = rawDesign(JsString("0.9.0"), Timestamp,
                            rawModel(ImportModel(<<"TOGGLE", "LED">>)))
  /\ result.success
  /\ model = ImportModel(<<"TOGGLE", "LED">>)


-----------------------------------------------------------------------------
(* C22: a saved design reads back as the model that was saved *)

(* C22: after every save of a model made by edits and ticks, deserializeDesign *)
(* accepts the design serializeDesign wrote, and the model it returns has the  *)
(* components and wires of the saved model, field for field and in order.      *)
C22_RoundTrip ==
  lastOp = "save" =>
    LET r == deserializeDesign(designData)
    IN /\ r.success
       /\ r.model.components = rendered.components
       /\ r.model.wires = rendered.wires

(* a model with a wire, a moved component and a register that a tick has *)
(* written has been saved                                                *)
C22_Witness ==
  /\ lastOp = "save"
  /\ Len(rendered.wires) > 0
  /\ \E i \in DOMAIN rendered.components : rendered.components[i].x # 120
  /\ \E i \in DOMAIN rendered.components :
       /\ rendered.components[i].type = "REGISTER"
       /\ rendered.components[i].props.state = "true"
  /\ deserializeDesign(designData).success

(* a design with a CUSTOM component has been saved and reads back with its *)
(* definition                                                             *)
C22_WitnessCustom ==
  /\ lastOp = "save"
  /\ \E i \in DOMAIN rendered.components :
       /\ rendered.components[i].type = "CUSTOM"
       /\ deserializeDesign(designData).model.components[i].customDef
            = <<AndDefinition(FALSE, TRUE)>>


-----------------------------------------------------------------------------
(* C23: components of an unknown kind *)

IsUnknown(c) == c.type \notin ComponentType

(* the model with every component of an unknown kind replaced by a source *)
(* that is constantly false                                              *)
AsFalseSource(m) ==
  [m EXCEPT !.components =
     [i \in DOMAIN m.components |->
        IF IsUnknown(m.components[i])
        THEN [m.components[i] EXCEPT !.type = "TOGGLE", !.props = [state |-> "false"]]
        ELSE m.components[i]]]

(* C23: evaluate returns OUT = false for a component of an unknown kind,  *)
(* and for every other component the signal it returns for the model in  *)
(* which the unknown component is a source that is constantly false.     *)
C23_UnknownKindIsFalse ==
  (pc = "done" /\ \E i \in DOMAIN model.components : IsUnknown(model.components[i])) =>
    \A i \in DOMAIN model.components :
      LET c == model.components[i]
      IN IF IsUnknown(c)
         THEN Get(signals, <<c.id, "OUT">>) = "false"
         ELSE /\ Get(signals, <<c.id, "OUT">>)
                   = Get(evaluate(AsFalseSource(model)), <<c.id, "OUT">>)
              /\ Acyclic(model) =>
                   Get(signals, <<c.id, "OUT">>) = FromBool(ExpectedOut(model, signals, c))

(* a NAND behind the unknown component lights the LED although the toggle *)
(* that drives the unknown component is on                                *)
C23_Witness ==
  /\ pc = "done"
  /\ model = UnknownCircuit("NAND", TRUE, TRUE)
  /\ Get(signals, <<"u", "OUT">>) = "false"
  /\ Get(signals, <<"led", "OUT">>) = "true"

(* the loop through the unknown component has been evaluated *)
C23_WitnessLoop ==
  /\ pc = "done"
  /\ model = UnknownLoop(TRUE)
  /\ Get(signals, <<"n", "OUT">>) = "true"
  /\ Get(signals, <<"led", "OUT">>) = "false"


-----------------------------------------------------------------------------
(* C24: the cyclic iteration ends in a fixed point *)

(* the loop was left by its break, in a pass before the hundredth *)
LeftEarly == pc = "done" /\ hasCycles(model) /\ iter + 1 < MAX_ITER

(* recomputing c from sig gives back its OUT and leaves every OUTi as it is *)
Recomputed(m, sig, c) ==
  LET r == computeOutput(wireMap(m), sig, c)
  IN /\ Get(sig, <<c.id, "OUT">>) = FromBool(r.value)
     /\ r.signals = sig

(* C24: when the cyclic iteration ends before its hundredth pass, every    *)
(* component that the topological sort did not reach recomputes, from the  *)
(* returned map, to the returned value on each of its output ports: OUT,   *)
(* and OUT0..OUTn of a CUSTOM component.                                   *)
C24_FixedPoint ==
  LeftEarly =>
    \A i \in DOMAIN model.components :
      model.components[i].id \notin Range(topologicalOrder(model))
        => Recomputed(model, signals, model.components[i])

(* the same when no CUSTOM component is among the components that the *)
(* topological sort did not reach                                      *)
C24_FixedPointOfGates ==
  (/\ LeftEarly
   /\ \A i \in DOMAIN model.components :
        model.components[i].type = "CUSTOM"
          => model.components[i].id \in Range(topologicalOrder(model))) =>
    \A i \in DOMAIN model.components :
      model.components[i].id \notin Range(topologicalOrder(model))
        => Recomputed(model, signals, model.components[i])


-----------------------------------------------------------------------------
(* C25: self-loops and the dependency graph *)

IsSelfLoop(w) == w.from.compId = w.to.compId

(* c has incoming wires, and all of them come from c itself *)
OnlySelfFed(m, id) ==
  /\ \E i \in DOMAIN m.wires : m.wires[i].to.compId = id
  /\ \A i \in DOMAIN m.wires : m.wires[i].to.compId = id => IsSelfLoop(m.wires[i])

(* the model without its self-loops has no cycle *)
AcyclicButSelfLoops(m) ==
  Acyclic([m EXCEPT !.wires = SelectSeq(@, LAMBDA w : ~IsSelfLoop(w))])

(* C25: a component whose only incoming wires are self-loops has indegree *)
(* zero and is in the topological order; when self-loops are the only     *)
(* cycles of a model, every component is ordered and the cyclic iteration *)
(* is never entered.                                                      *)
C25_SelfLoopsIgnored ==
  pc = "done" =>
    /\ \A id \in Ids(model) :
         OnlySelfFed(model, id) =>
           /\ dependencyGraph(model).indegree[id] = 0
           /\ id \in Range(topologicalOrder(model))
    /\ AcyclicButSelfLoops(model) => (~hasCycles(model) /\ iter = 0)


-----------------------------------------------------------------------------
(* C26: registers on a common clock shift by one stage *)

(* register r sees a rising edge with its enable in the tick to instant t *)
SeesRisingEdge(m, t, r) ==
  LET before == evaluate(m)
      after == evaluate(AdvancedModel(m, t))
  IN /\ SignalInto(m, after, r.id, "CLK", "false") = "true"
     /\ SignalInto(m, before, r.id, "CLK", "false") # "true"
     /\ SignalInto(m, after, r.id, "EN", "true") = "true"

(* the D input of r2 has one wire, and it comes from the output of r1 *)
Feeds(m, r1, r2) ==
  /\ WiresTo(m, r2.id, "D") # {}
  /\ \A i \in WiresTo(m, r2.id, "D") :
       m.wires[i].from = [compId |-> r1.id, port |-> "OUT"]

(* C26: when the D input of register R2 is driven by register R1 and both *)
(* see a rising edge in one tick, the state of R2 after the tick is the   *)
(* state R1 held before the tick, in every listing order.                 *)
C26_SimultaneousCapture ==
  [][lastOp' = "tick" =>
       \A i \in Registers(model) : \A j \in Registers(model) :
         LET r1 == model.components[i]
             r2 == model.components[j]
         IN (/\ Feeds(model, r1, r2)
             /\ SeesRisingEdge(model, now', r1)
             /\ SeesRisingEdge(model, now', r2))
              => model'.components[j].props.state = r1.props.state]_vars

(* in the three-stage chain, whose middle stage is listed first, one rising *)
(* edge has moved the 1 of the first stage into the second stage only       *)
C26_Witness ==
  /\ lastOp = "tick"
  /\ Ids(model) = {"k", "d", "r1", "r2", "r3"}
  /\ ById(model, "k").props.state = "true"
  /\ ById(model, "d").props.state = "false"
  /\ ById(model, "r1").props.state = "false"
  /\ ById(model, "r2").props.state = "true"
  /\ ById(model, "r3").props.state = "false"


-----------------------------------------------------------------------------
(* C27: wires from a deleted component into a register *)

(* wire w enters a register port and its source component is not in m *)
IsDanglingIntoRegister(m, w) ==
  /\ w.from.compId \notin Ids(m)
  /\ w.to.port \in {"EN", "D", "CLK"}
  /\ \E i \in Registers(m) : m.components[i].id = w.to.compId

HasDanglingIntoRegister(m) ==
  \E i \in DOMAIN m.wires : IsDanglingIntoRegister(m, m.wires[i])

(* m without the wires into a register whose source no longer exists *)
WithoutDangling(m) ==
  [m EXCEPT !.wires = SelectSeq(m.wires, LAMBDA w : ~IsDanglingIntoRegister(m, w))]

(* C27: in a tick, a wire into EN, D or CLK of a register whose source      *)
(* component no longer exists counts as no wire: every register ends the     *)
(* tick in the state it would have without those wires (EN enabled, D and    *)
(* CLK false).                                                               *)
C27_DanglingIsAbsent ==
  [][lastOp' = "tick" =>
       \A i \in Registers(model) :
         model'.components[i].props.state =
           finalModel(WithoutDangling(model), now').components[i].props.state]_vars


-----------------------------------------------------------------------------
(* C28: the clock of updateStatefulComponents *)

Clocks(m) == {i \in DOMAIN m.components : m.components[i].type = "CLOCK"}

(* the phases p and q lie on different sides of the half-period boundary *)
AcrossHalfPeriod(p, q) == (p < 500) # (q < 500)

(* C28: a call of updateStatefulComponents flips the state of a CLOCK exactly *)
(* when the phase (the time modulo 1000) lies across the half-period boundary *)
(* from the phase the call before recorded, leaves the state as it is on any  *)
(* other call that follows a call, and records the phase on every call.       *)
C28_FlipsOnHalfPeriod ==
  [][lastOp' = "update" =>
       \A i \in Clocks(model) :
         LET c == model.components[i]
             after == model'.components[i]
             phase == now' % 1000
         IN /\ after.props.lastTick = phase
            /\ "lastTick" \in DOMAIN c.props =>
                 Truthy(after.props.state) =
                   IF AcrossHalfPeriod(c.props.lastTick, phase)
                   THEN ~Truthy(c.props.state)
                   ELSE Truthy(c.props.state)]_vars

(* the part that holds: the phase is recorded on every call, and the state *)
(* flips exactly when the phase has come back from the upper half of the    *)
(* period to the lower half                                                  *)
C28_FlipsOnWrap ==
  [][lastOp' = "update" =>
       \A i \in Clocks(model) :
         LET c == model.components[i]
             after == model'.components[i]
             phase == now' % 1000
         IN /\ after.props.lastTick = phase
            /\ Truthy(after.props.state) =
                 IF phase < 500 /\ lastTickOf(c) >= 500
                 THEN ~Truthy(c.props.state)
                 ELSE Truthy(c.props.state)]_vars


-----------------------------------------------------------------------------
(* C29: an LED and the wire that feeds it *)

Leds(m) == {i \in DOMAIN m.components : m.components[i].type = "LED"}

(* the LED shows, in sig, the signal of the port wired to its IN *)
ShowsItsWire(m, sig, led) ==
  Get(sig, <<led.id, "OUT">>) = FromBool(DrivenSignal(m, sig, led.id, "IN"))

(* the component that drives IN of the LED at position i is listed before it *)
ListedAfterDriver(m, i) ==
  \A w \in WiresTo(m, m.components[i].id, "IN") :
    \E j \in 1..(i - 1) : m.components[j].id = m.wires[w].from.compId

(* C29: in every map evaluate returns, also when the cyclic iteration has *)
(* run into its ceiling of 100 passes, the OUT of every LED is the        *)
(* returned signal of the port that drives its IN, false without a wire.  *)
C29_LedShowsItsWire ==
  pc = "done" =>
    \A i \in Leds(model) :
      Cardinality(WiresTo(model, model.components[i].id, "IN")) <= 1
        => ShowsItsWire(model, signals, model.components[i])

(* C29, amended: the same for every LED that the topological sort has *)
(* ordered or that is listed after the component that drives its IN.   *)
C29_OrderedLedShowsItsWire ==
  pc = "done" =>
    \A i \in Leds(model) :
      (/\ Cardinality(WiresTo(model, model.components[i].id, "IN")) <= 1
       /\ \/ model.components[i].id \in Range(topologicalOrder(model))
          \/ ListedAfterDriver(model, i))
        => ShowsItsWire(model, signals, model.components[i])

(* a ring that has run into the ceiling, with a lit LED listed behind it *)
C29_Witness ==
  /\ pc = "done"
  /\ iter = MAX_ITER
  /\ \E i \in Leds(model) :
       /\ WiresTo(model, model.components[i].id, "IN") # {}
       /\ ListedAfterDriver(model, i)
       /\ model.components[i].id \notin Range(topologicalOrder(model))
       /\ Get(signals, <<model.components[i].id, "OUT">>) = "true"

(* an LED listed before the gate that feeds it, in a model without a loop, is lit *)
C29_WitnessOrdered ==
  /\ pc = "done"
  /\ \E i \in Leds(model) :
       /\ WiresTo(model, model.components[i].id, "IN") # {}
       /\ ~ListedAfterDriver(model, i)
       /\ model.components[i].id \in Range(topologicalOrder(model))
       /\ Get(signals, <<model.components[i].id, "OUT">>) = "true"


-----------------------------------------------------------------------------
(* C30: the listing order of an acyclic model *)

(* s with its elements at i and i + 1 exchanged *)
Exchanged(s, i) ==
  [j \in 1..Len(s) |-> IF j = i THEN s[i + 1] ELSE IF j = i + 1 THEN s[i] ELSE s[j]]

(* the listings of m that differ from it in two neighbours *)
Neighbours(m) ==
  {CircuitModel(Exchanged(m.components, i), m.wires) : i \in 1..(Len(m.components) - 1)}
  \cup {CircuitModel(m.components, Exchanged(m.wires, i)) : i \in 1..(Len(m.wires) - 1)}

(* m lists the components and the wires of b, in any order *)
SameCircuit(m, b) ==
  /\ Len(m.components) = Len(b.components) /\ Range(m.components) = Range(b.components)
  /\ Len(m.wires) = Len(b.wires) /\ Range(m.wires) = Range(b.wires)

(* C30: for an acyclic model with at most one wire per input port, evaluate *)
(* returns the same map for every order in which the components and the    *)
(* wires are listed: exchanging two neighbours in either list leaves the    *)
(* map as it is, and every listing of a base circuit gives the map of the   *)
(* base circuit.                                                            *)
C30_OrderIndependent ==
  (pc = "done" /\ Acyclic(model) /\ SingleDriver(model)) =>
    /\ \A m \in Neighbours(model) : evaluate(m) = signals
    /\ \A b \in RelistBases : SameCircuit(model, b) => evaluate(b) = signals

(* the wrapped circuit, listed from its LED to its toggles with its wires *)
(* from the last to the first, has been evaluated and its LED is lit      *)
C30_Witness ==
  /\ pc = "done"
  /\ Acyclic(model) /\ SingleDriver(model)
  /\ SameCircuit(model, WrappedCircuit)
  /\ [i \in 1..5 |-> model.components[i].id] = <<"led", "v", "c", "x2", "x1">>
  /\ [i \in 1..4 |-> model.wires[i].id] = <<"w4", "w3", "w2", "w1">>
  /\ Get(signals, <<"led", "OUT">>) = "true"

====
